---- MODULE Spec2Model ----
(***************************************************************************)
(* Model of the xGoal surface estimation code of func_class.py and Main.py *)
(* (DaB_Project_Sports): the sampling grid, scattered-data interpolation,  *)
(* negative clamping, Gaussian smoothing and surface differencing, and the *)
(* Player / Team objects that select the records fed to them.              *)
(*                                                                         *)
(* Numbers.  Coordinates are integers (rink feet).  xGoal values and       *)
(* interpolated cells are integers (a fixed-point unit of probability).    *)
(* gaussian_filter uses integer kernel weights (KernelW),    *)
(* so a smoothed cell is the exact integer  GaussSum^2 * (smoothed value). *)
(***************************************************************************)
EXTENDS Integers, Sequences, FiniteSets, TLC

VARIABLES
    shot_data,   \* the cleaned shot table of the session (main.py: shoot_data)
    cubic,       \* value the cubic interpolant takes at a non-data node in the hull
    dup_keep,    \* which of several records at one position the triangulation keeps
    player,      \* the Player object constructed in the session, or NoneObj
    team,        \* the Team object constructed in the session, or NoneObj
    stack,       \* call stack: frames of the functions being executed
    result,      \* value returned by the finished top-level call, or NoneObj
    exc,         \* exception that escaped the top-level call, or "None"
    fs,          \* files written: path -> content
    call,        \* the session's top-level call (function and arguments), or NoneObj
    trace,       \* history: the array operations executed, in order
    done,        \* the session's top-level call has finished (returned or raised)
    plt,         \* matplotlib.pyplot's open figures, the current one last; each
                 \* figure is the sequence of the images drawn on it
    workers      \* calls running side by side on one interpreter: their locals

vars == <<shot_data, cubic, dup_keep, player, team, stack, result, exc, fs, call,
          trace, done, plt, workers>>

-----------------------------------------------------------------------------
(* Program constants                                                       *)

WidthSamples == 100
HeightSamples == 85
XMin == 0
XMax == 100
\* import_clean_data keeps xCordAdjusted <= 89
MaxXCord == 89
\* y-bounds -42.5 and 42.5, written in halves
YMinHalves == -85
YMaxHalves == 85
Sigma == 3
FillValue == 0
\* gaussian_filter: truncate = 4.0 (its default); radius = int(truncate * sigma + 0.5)
Truncate == 4
KernelRadius == (2 * Truncate * Sigma + 1) \div 2

\* round(2000 * exp(-k^2 / (2 * Sigma^2))) for k = 0 .. KernelRadius
KernelW == <<2000, 1892, 1601, 1213, 822, 499, 271, 131, 57, 22, 8, 2, 1>>

-----------------------------------------------------------------------------
(* Bounds of the model                                                     *)

\* largest number of rows of the shot pool a session's shot table holds
MaxShots == 4
\* largest number of rows of the roster pool a roster table holds
MaxRoster == 2
\* smoothed surfaces and differences are observed on WinRows rows and WinCols columns
WinRows == 3
WinCols == 3

NoneObj == [kind |-> "None"]

\* Sum of f[k] over the finite set S of keys of the function f
RECURSIVE SumOver(_, _)
SumOver(f, S) ==
    IF S = {} THEN 0
    ELSE LET k == CHOOSE k \in S : TRUE
         IN  f[k] + SumOver(f, S \ {k})

-----------------------------------------------------------------------------
(* np.linspace, np.round, np.meshgrid                                      *)

\* np.linspace(start, stop, num) with start, stop given in halves: the i-th value
\* (i = 0 .. num-1) is start + i * (stop - start) / (num - 1), kept as an exact
\* fraction [n, d]
linspace(startHalves, stopHalves, num) ==
    [k \in 1..num |->
        [n |-> startHalves * (num - 1) + (k - 1) * (stopHalves - startHalves),
         d |-> 2 * (num - 1)]]

\* (mutant of npRound: ties rounded away from zero)
npRoundHalfAway(q) ==
    LET fl == q.n \div q.d
        r  == q.n % q.d
    IN  IF 2 * r < q.d THEN fl
        ELSE IF 2 * r > q.d THEN fl + 1
        ELSE IF fl >= 0 THEN fl + 1 ELSE fl

\* np.round of the fraction n/d (d > 0): nearest integer, ties to the even one
npRound(q) ==
    LET fl == q.n \div q.d
        r  == q.n % q.d
    IN  IF 2 * r < q.d THEN fl
        ELSE IF 2 * r > q.d THEN fl + 1
        ELSE IF fl % 2 = 0 THEN fl ELSE fl + 1

\* (mutant of meshgridRound: the arrays indexed (x, y), shape (len(xs), len(ys)))
meshgridRoundIJ ==
    LET lx == linspace(2 * XMin, 2 * XMax, WidthSamples)
        ly == linspace(YMinHalves, YMaxHalves, HeightSamples)
        xs == [c \in 1..Len(lx) |-> npRound(lx[c])]
        ys == [r \in 1..Len(ly) |-> npRound(ly[r])]
    IN  [kind |-> "grid", shape |-> <<Len(xs), Len(ys)>>, xs |-> xs, ys |-> ys]

\* [x, y] = np.round(np.meshgrid(np.linspace(0, 100, 100), np.linspace(-42.5, 42.5, 85)))
\* x[r][c] = xs[c] and y[r][c] = ys[r]; both arrays have shape (len(ys), len(xs))
meshgridRound ==
    LET lx == linspace(2 * XMin, 2 * XMax, WidthSamples)
        ly == linspace(YMinHalves, YMaxHalves, HeightSamples)
        xs == [c \in 1..Len(lx) |-> npRound(lx[c])]
        ys == [r \in 1..Len(ly) |-> npRound(ly[r])]
    IN  [kind |-> "grid", shape |-> <<Len(ys), Len(xs)>>, xs |-> xs, ys |-> ys]

-----------------------------------------------------------------------------
(* Shot records and roster rows the sessions draw their tables from        *)

Shot(name, x, y, p, dist, ev) ==
    [shooterName |-> name, xCordAdjusted |-> x, yCordAdjusted |-> y,
     xGoal |-> p, shotDistance |-> dist, event |-> ev,
     awaySkatersOnIce |-> 5, homeSkatersOnIce |-> 5, shotOnEmptyNet |-> 0]

\* Rows 1, 2, 4 are collinear; rows 1 and 5 share one position with different xGoal
ShotPool ==
    << Shot("A", 87, -42, 1, 42, "SHOT"),
       Shot("A", 89, -42, 3, 42, "GOAL"),
       Shot("A", 88, -40, 2, 40, "SHOT"),
       Shot("A", 88, -42, 1, 42, "MISS"),
       Shot("B", 87, -42, 3, 42, "GOAL") >>

RosterPool ==
    << [name |-> "A", team |-> "T1"],
       [name |-> "B", team |-> "T1"],
       [name |-> "A", team |-> "T1"] >>

PlayerNames == {"A", "B", "Z"}
TeamNames == {"T1", "T2"}

\* The rows of pool at the indices of S, in the pool's order
RECURSIVE PickRows(_, _, _)
PickRows(pool, S, k) ==
    IF k > Len(pool) THEN << >>
    ELSE (IF k \in S THEN << pool[k] >> ELSE << >>) \o PickRows(pool, S, k + 1)

Tables(pool, max) ==
    { PickRows(pool, S, 1) : S \in { T \in SUBSET (1..Len(pool)) : Cardinality(T) <= max } }

ShotTables == Tables(ShotPool, MaxShots)
RosterTables == Tables(RosterPool, MaxRoster)

\* DataFrame row filter  df[df[col] == v]
RECURSIVE FilterEq(_, _, _)
FilterEq(df, col, v) ==
    IF df = << >> THEN << >>
    ELSE (IF Head(df)[col] = v THEN << Head(df) >> ELSE << >>) \o FilterEq(Tail(df), col, v)

\* DataFrame row filter  df[df[col] <= v]
RECURSIVE FilterLe(_, _, _)
FilterLe(df, col, v) ==
    IF df = << >> THEN << >>
    ELSE (IF Head(df)[col] <= v THEN << Head(df) >> ELSE << >>) \o FilterLe(Tail(df), col, v)

\* Series.unique(): the values in order of first appearance
RECURSIVE Unique(_, _)
Unique(s, seen) ==
    IF s = << >> THEN << >>
    ELSE IF Head(s) \in seen THEN Unique(Tail(s), seen)
         ELSE << Head(s) >> \o Unique(Tail(s), seen \cup {Head(s)})

Column(df, col) == [k \in 1..Len(df) |-> df[k][col]]

\* pd.concat(frames, ignore_index=True); an empty list raises ValueError
RECURSIVE ConcatAll(_)
ConcatAll(frames) ==
    IF frames = << >> THEN << >> ELSE Head(frames) \o ConcatAll(Tail(frames))

-----------------------------------------------------------------------------
(* scipy.interpolate.griddata(points, values, (x, y), method='cubic',      *)
(* fill_value=0)                                                           *)

\* float('nan'): the xGoal of a row whose csv field is empty, and every value
\* computed from it; a number outside the range of every other value of the model
NaN == -2000000000

Pos(rec) == << rec.xCordAdjusted, rec.yCordAdjusted >>
Points(df) == { Pos(df[k]) : k \in 1..Len(df) }

Orient(a, b, c) == (b[1] - a[1]) * (c[2] - a[2]) - (b[2] - a[2]) * (c[1] - a[1])

\* The Delaunay triangulation needs three points that are not on one line
CanTriangulate(P) == \E a \in P, b \in P, c \in P : Orient(a, b, c) # 0

\* q lies in the (closed) convex hull of P: in some triangle with corners in P
InHull(q, P) ==
    \E a \in P, b \in P, c \in P :
        /\ Orient(a, b, c) > 0
        /\ Orient(a, b, q) >= 0
        /\ Orient(b, c, q) >= 0
        /\ Orient(c, a, q) >= 0

\* Nodes that can be a query node inside the hull of other pool positions
FreeNodes ==
    LET P == Points(ShotPool)
    IN  { q \in ((MaxXCord - 2)..MaxXCord) \X ((-42)..(-40)) :
            \/ InHull(q, P \ {q})
            \/ \E a \in P \ {q}, b \in P \ {q} :
                  /\ a # b /\ Orient(a, b, q) = 0
                  /\ (a[1] - q[1]) * (b[1] - q[1]) + (a[2] - q[2]) * (b[2] - q[2]) <= 0 }

CubicVals == {-1, 2}

\* The xGoal the interpolant takes at a data position: that of the record the
\* triangulation kept as the vertex
KeptValue(df, q, keep) ==
    LET at == { k \in 1..Len(df) : Pos(df[k]) = q }
        k  == IF keep = "first"
              THEN CHOOSE i \in at : \A j \in at : i <= j
              ELSE CHOOSE i \in at : \A j \in at : i >= j
    IN  df[k].xGoal

griddata(df, grid, cub, keep) ==
    LET P == Points(df) IN
    IF df = << >> THEN [kind |-> "raise", exc |-> "ValueError"]
    ELSE IF ~CanTriangulate(P) THEN [kind |-> "raise", exc |-> "QhullError"]
    ELSE
      LET xlo == CHOOSE v \in {p[1] : p \in P} : \A p \in P : v <= p[1]
          xhi == CHOOSE v \in {p[1] : p \in P} : \A p \in P : v >= p[1]
          ylo == CHOOSE v \in {p[2] : p \in P} : \A p \in P : v <= p[2]
          yhi == CHOOSE v \in {p[2] : p \in P} : \A p \in P : v >= p[2]
          rows == { r \in 1..Len(grid.ys) : grid.ys[r] >= ylo /\ grid.ys[r] <= yhi }
          cols == { c \in 1..Len(grid.xs) : grid.xs[c] >= xlo /\ grid.xs[c] <= xhi }
          inside == { rc \in rows \X cols : InHull(<< grid.xs[rc[2]], grid.ys[rc[1]] >>, P) }
          \* a NaN at a vertex enters the gradients of every vertex, and through
          \* them the value of every node inside the hull
          poisoned == \E q \in P : KeptValue(df, q, keep) = NaN
      IN  [kind |-> "array", shape |-> grid.shape, rest |-> FillValue,
           cells |-> [rc \in inside |->
                        LET q == << grid.xs[rc[2]], grid.ys[rc[1]] >>
                        IN  IF poisoned THEN NaN
                            ELSE IF q \in P THEN KeptValue(df, q, keep) ELSE cub[q]]]

\* Value of cell (r, c) of an interpolated array
At(arr, r, c) == IF << r, c >> \in DOMAIN arr.cells THEN arr.cells[<< r, c >>] ELSE arr.rest

-----------------------------------------------------------------------------
(* np.where(a < 0, 0, a)                                                   *)

\* (mutant of npWhereNeg: the array is left as interpolated)
npWhereNegNoClamp(arr) == arr

\* nan < 0 is False: a NaN cell stays NaN
npWhereNeg(arr) ==
    [arr EXCEPT !.rest = IF arr.rest < 0 THEN 0 ELSE arr.rest,
                !.cells = [rc \in DOMAIN arr.cells |->
                             IF arr.cells[rc] = NaN THEN NaN
                             ELSE IF arr.cells[rc] < 0 THEN 0 ELSE arr.cells[rc]]]

-----------------------------------------------------------------------------
(* scipy.ndimage.gaussian_filter(a, sigma=3): correlate1d with the kernel  *)
(* along axis 0, then along axis 1, mode='reflect'                         *)

\* mode='reflect' (d c b a | a b c d | d c b a), 1-based index i of an axis of length n
Reflect(i, n) == IF i < 1 THEN 1 - i ELSE IF i > n THEN 2 * n + 1 - i ELSE i

Abs(k) == IF k < 0 THEN -k ELSE k

GaussSum == SumOver([k \in (-KernelRadius)..KernelRadius |-> KernelW[Abs(k) + 1]],
                    (-KernelRadius)..KernelRadius)

\* Total kernel weight with which source index s of an axis of length n enters
\* output index i
AxisWeight(i, s, n) ==
    LET ks == { k \in (-KernelRadius)..KernelRadius : Reflect(i + k, n) = s }
    IN  SumOver([k \in ks |-> KernelW[Abs(k) + 1]], ks)

Window == (1..WinRows) \X ((MaxXCord - WinCols + 1)..MaxXCord)

\* The two passes, written out for output cell (i, j): the cells outside
\* arr.cells all hold arr.rest and contribute rest * GaussSum * GaussSum in total
gaussianAt(arr, i, j) ==
    LET D == DOMAIN arr.cells
        term == [rc \in D |-> (arr.cells[rc] - arr.rest)
                                 * AxisWeight(i, rc[1], arr.shape[1])
                                 * AxisWeight(j, rc[2], arr.shape[2])]
        \* a NaN cell with a non-zero weight makes the sum NaN
        nans == { rc \in D : /\ arr.cells[rc] = NaN
                             /\ AxisWeight(i, rc[1], arr.shape[1]) > 0
                             /\ AxisWeight(j, rc[2], arr.shape[2]) > 0 }
    IN  IF nans # {} THEN NaN
        ELSE arr.rest * GaussSum * GaussSum + SumOver(term, D)

gaussian_filter(arr) ==
    [kind |-> "surface", shape |-> arr.shape,
     win |-> [rc \in Window |-> gaussianAt(arr, rc[1], rc[2])]]

\* (mutant of npSubtract: negative differences clamped to 0)
npSubtractClamped(a, b) ==
    [kind |-> "surface", shape |-> a.shape,
     win |-> [rc \in Window |-> IF a.win[rc] - b.win[rc] < 0 THEN 0
                                ELSE a.win[rc] - b.win[rc]]]

\* a - b, elementwise, for two smoothed surfaces
npSubtract(a, b) ==
    [kind |-> "surface", shape |-> a.shape,
     win |-> [rc \in Window |-> IF a.win[rc] = NaN \/ b.win[rc] = NaN THEN NaN
                                ELSE a.win[rc] - b.win[rc]]]

-----------------------------------------------------------------------------
(* Player                                                                  *)

\* player_name not in data['shooterName'].values
NameMissing(name, data) == \A k \in 1..Len(data) : data[k].shooterName # name

\* (mutant of PlayerInit: the existence check is missing)
PlayerInitNoCheck(player_name, data) ==
    LET own == FilterEq(data, "shooterName", player_name)
    IN  [kind |-> "Player", player_name |-> player_name, data |-> own,
         total_shots |-> Len(own)]

\* Player.__init__: the object, or the exception it raises
PlayerInit(player_name, data) ==
    IF NameMissing(player_name, data)
    THEN [kind |-> "raise", exc |-> "ValueError"]
    ELSE LET own == FilterEq(data, "shooterName", player_name)
         IN  [kind |-> "Player", player_name |-> player_name, data |-> own,
              total_shots |-> Len(own)]

\* Player.get_basic_stats; the percentage goals / total_shots * 100 as a fraction
PlayerBasicStats(p) ==
    LET goals == FilterEq(p.data, "event", "GOAL")
    IN  [TotalShots |-> p.total_shots, Goals |-> Len(goals),
         ShootingPct |-> IF p.total_shots > 0
                         THEN [n |-> Len(goals) * 100, d |-> p.total_shots]
                         ELSE [n |-> 0, d |-> 1]]

\* Player.high_danger_shots(distance_threshold)
PlayerHighDanger(p, distance_threshold) ==
    LET hd == FilterLe(p.data, "shotDistance", distance_threshold)
    IN  [HighDangerShots |-> Len(hd),
         HighDangerPct |-> IF p.total_shots > 0
                           THEN [n |-> Len(hd) * 100, d |-> p.total_shots]
                           ELSE [n |-> 0, d |-> 1]]

-----------------------------------------------------------------------------
(* Team                                                                    *)

\* Team.get_team_players: one Player per distinct roster name of the team that
\* has at least one shot
RECURSIVE PlayersOf(_, _)
PlayersOf(names, shots) ==
    IF names = << >> THEN << >>
    ELSE LET player_data == FilterEq(shots, "shooterName", Head(names))
         IN  (IF player_data # << >>
              THEN << PlayerInit(Head(names), player_data) >>
              ELSE << >>) \o PlayersOf(Tail(names), shots)

\* (mutant of get_team_players: one Player per roster row, names not made unique)
get_team_players_PerRow(team_name, shots, skaters) ==
    LET team_players == FilterEq(skaters, "team", team_name)
    IN  PlayersOf(Column(team_players, "name"), shots)

get_team_players(team_name, shots, skaters) ==
    LET team_players == FilterEq(skaters, "team", team_name)
    IN  PlayersOf(Unique(Column(team_players, "name"), {}), shots)

\* Team.__init__
TeamInit(team_name, shots, skaters) ==
    [kind |-> "Team", team_name |-> team_name, shot_data |-> shots,
     skaters_data |-> skaters, players |-> get_team_players(team_name, shots, skaters)]

\* a / b + c / d, for the sum of percentages
AddFrac(a, b) == [n |-> a.n * b.d + b.n * a.d, d |-> a.d * b.d]

\* Team.get_basic_stats: the sums over the players' stats, and the mean of their
\* shooting percentages
RECURSIVE SumStats(_)
SumStats(players) ==
    IF players = << >>
    THEN [total_shots |-> 0, total_goals |-> 0,
          total_shooting_percentage |-> [n |-> 0, d |-> 1]]
    ELSE LET stats == PlayerBasicStats(Head(players))
             rest  == SumStats(Tail(players))
         IN  [total_shots |-> stats.TotalShots + rest.total_shots,
              total_goals |-> stats.Goals + rest.total_goals,
              total_shooting_percentage |->
                  AddFrac(stats.ShootingPct, rest.total_shooting_percentage)]

TeamBasicStats(t) ==
    LET sums == SumStats(t.players)
        player_count == Len(t.players)
    IN  [Team |-> t.team_name, TotalShots |-> sums.total_shots,
         TotalGoals |-> sums.total_goals,
         AvgShootingPct |-> IF player_count > 0
                            THEN [n |-> sums.total_shooting_percentage.n,
                                  d |-> sums.total_shooting_percentage.d * player_count]
                            ELSE [n |-> 0, d |-> 1]]

\* Team.high_danger_shots(distance_threshold): counted on self.shot_data
TeamHighDanger(t, distance_threshold) ==
    LET high_danger_shots == FilterLe(t.shot_data, "shotDistance", distance_threshold)
        total_team_shots == Len(t.shot_data)
    IN  [HighDangerShots |-> Len(high_danger_shots),
         HighDangerPct |-> IF total_team_shots > 0
                           THEN [n |-> Len(high_danger_shots) * 100,
                                 d |-> total_team_shots]
                           ELSE [n |-> 0, d |-> 1]]

\* [player.data for player in self.players]
PlayerFrames(t) == [k \in 1..Len(t.players) |-> t.players[k].data]

-----------------------------------------------------------------------------
(* Call stack                                                              *)

Some(df) == [kind |-> "df", rows |-> df]

Frame(fn, pc, locals) ==
    [fn |-> fn, pc |-> pc, dst |-> "None", cont |-> "None"] @@ locals

Top == stack[Len(stack)]
SetTop(f) == [stack EXCEPT ![Len(stack)] = f]
AtPc(fn, pc) == stack # << >> /\ Top.fn = fn /\ Top.pc = pc

\* An entry of the history: array operation op executed by the running function
Ev(op) == [depth |-> Len(stack), fn |-> Top.fn, op |-> op]

\* The running function goes on as frame f, having executed the operations ops
Step(f, ops) ==
    /\ stack' = SetTop(f)
    /\ trace' = trace \o ops
    /\ UNCHANGED <<plt, workers, shot_data, cubic, dup_keep, player, team, result, exc, fs, call, done>>

\* The frames executing the body of a try statement that has a finally block
InTry == { k \in 1..Len(stack) : "finally" \in DOMAIN stack[k] /\ stack[k].finally # "None" }

\* An exception leaves every function on the stack up to the innermost try
\* statement with a finally block, which runs that block with the exception
\* pending; without one it escapes the top-level call
DoRaise(e) ==
    /\ IF InTry = {}
       THEN /\ stack' = << >>
            /\ exc' = e
            /\ done' = TRUE
       ELSE LET k == CHOOSE i \in InTry : \A j \in InTry : j <= i
            IN  /\ stack' = Append(SubSeq(stack, 1, k - 1),
                                   [stack[k] EXCEPT !.pc = stack[k].finally,
                                                    !.finally = "None",
                                                    !.pending = e])
                /\ UNCHANGED <<exc, done>>
    /\ UNCHANGED <<plt, workers, shot_data, cubic, dup_keep, player, team, result, fs, call, trace>>

\* return v: to the caller's variable, or as the result of the top-level call
DoReturn(v) ==
    /\ IF Len(stack) = 1
       THEN /\ stack' = << >>
            /\ result' = v
            /\ done' = TRUE
       ELSE LET caller == stack[Len(stack) - 1]
                next   == [caller EXCEPT !.pc = caller.cont]
            IN  /\ stack' = Append(SubSeq(stack, 1, Len(stack) - 2),
                                   IF caller.dst = "None" THEN next
                                   ELSE [next EXCEPT ![caller.dst] = v])
                /\ UNCHANGED <<result, done>>
    /\ UNCHANGED <<plt, workers, shot_data, cubic, dup_keep, player, team, exc, call>>

\* dst = callee(...), or callee(...) with dst "None": push the callee's frame; on
\* return go on at cont
DoCall(callee, dst, cont) ==
    /\ stack' = Append(SetTop([Top EXCEPT !.dst = dst, !.cont = cont]), callee)
    /\ UNCHANGED <<plt, workers, shot_data, cubic, dup_keep, player, team, result, exc, fs, call,
                   trace, done>>

\* xgoals = griddata(...): assigns field, or raises
InterpStep(df, field, next) ==
    LET g == griddata(df, Top.xy, cubic, dup_keep)
    IN  IF g.kind = "raise"
        THEN DoRaise(g.exc)
        ELSE Step([Top EXCEPT ![field] = g, !.pc = next], << Ev("griddata") >>)

\* os.makedirs(output_dir, exist_ok=True); ...; plt.savefig(output_path)
Put(files, path, content) ==
    [q \in DOMAIN files \cup {path} |-> IF q = path THEN content ELSE files[q]]

HeatmapPath(dir, name) == << dir, name, "xGoal_Smoothed_Heatmap.png" >>
ComparisonPath(dir, name) == << dir, name, "League_xGoal_Comparison.png" >>
ReportPath(name) == << name, "Shooting_Report.pdf" >>

\* The directory entry os.makedirs(output_dir, exist_ok=True) leaves
Directory == [kind |-> "dir"]

\* Make the directory, save the image and return its path
SaveAndReturn(path, img) ==
    /\ fs' = Put(Put(fs, << path[1] >>, Directory), path, [kind |-> "png", img |-> img])
    /\ trace' = Append(trace, Ev("savefig"))
    /\ DoReturn(path)

-----------------------------------------------------------------------------
(* generate_league_xgoals_smooth(data)                                     *)

LeagueFrame(data) ==
    Frame("generate_league_xgoals_smooth", "L46",
          [data |-> data, xy |-> NoneObj, league_xgoals |-> NoneObj,
           league_xgoals_smooth |-> NoneObj])

League_L46 ==
    /\ AtPc("generate_league_xgoals_smooth", "L46")
    /\ Step([Top EXCEPT !.xy = meshgridRound, !.pc = "L49"], << Ev("meshgrid") >>)

League_L49 ==
    /\ AtPc("generate_league_xgoals_smooth", "L49")
    /\ InterpStep(Top.data, "league_xgoals", "L56")

League_L56 ==
    /\ AtPc("generate_league_xgoals_smooth", "L56")
    /\ Step([Top EXCEPT !.league_xgoals = npWhereNeg(Top.league_xgoals), !.pc = "L59"],
            << Ev("where") >>)

League_L59 ==
    /\ AtPc("generate_league_xgoals_smooth", "L59")
    /\ Step([Top EXCEPT !.league_xgoals_smooth = gaussian_filter(Top.league_xgoals),
                        !.pc = "L61"],
            << Ev("gaussian_filter") >>)

League_L61 ==
    /\ AtPc("generate_league_xgoals_smooth", "L61")
    /\ DoReturn(Top.league_xgoals_smooth)
    /\ UNCHANGED <<fs, trace>>

-----------------------------------------------------------------------------
(* Player.shot_heatmap(self, output_dir)                                   *)

PlayerHeatmapFrame(self, output_dir) ==
    Frame("Player.shot_heatmap", "L101",
          [self |-> self, output_dir |-> output_dir, xy |-> NoneObj,
           xgoals_player |-> NoneObj, player_shots_smooth |-> NoneObj])

PlayerHeatmap_L101 ==
    /\ AtPc("Player.shot_heatmap", "L101")
    /\ Step([Top EXCEPT !.xy = meshgridRound, !.pc = "L102"], << Ev("meshgrid") >>)

PlayerHeatmap_L102 ==
    /\ AtPc("Player.shot_heatmap", "L102")
    /\ InterpStep(Top.self.data, "xgoals_player", "L106")

PlayerHeatmap_L106 ==
    /\ AtPc("Player.shot_heatmap", "L106")
    /\ Step([Top EXCEPT !.xgoals_player = npWhereNeg(Top.xgoals_player), !.pc = "L107"],
            << Ev("where") >>)

PlayerHeatmap_L107 ==
    /\ AtPc("Player.shot_heatmap", "L107")
    /\ Step([Top EXCEPT !.player_shots_smooth = gaussian_filter(Top.xgoals_player),
                        !.pc = "L110"],
            << Ev("gaussian_filter") >>)

PlayerHeatmap_L110 ==
    /\ AtPc("Player.shot_heatmap", "L110")
    /\ SaveAndReturn(HeatmapPath(Top.output_dir, Top.self.player_name),
                     Top.player_shots_smooth)

-----------------------------------------------------------------------------
(* Player.compare_with_league(self, data, output_dir)                      *)

PlayerCompareFrame(self, data, output_dir) ==
    Frame("Player.compare_with_league", "L139",
          [self |-> self, data |-> data, output_dir |-> output_dir, xy |-> NoneObj,
           xgoals_player |-> NoneObj, player_shots_smooth |-> NoneObj,
           league_xgoals_smooth |-> NoneObj, difference |-> NoneObj])

PlayerCompare_L139 ==
    /\ AtPc("Player.compare_with_league", "L139")
    /\ Step([Top EXCEPT !.data = IF Top.data.kind = "None" THEN Some(Top.self.data)
                                 ELSE Top.data,
                        !.pc = "L142"], << >>)

PlayerCompare_L142 ==
    /\ AtPc("Player.compare_with_league", "L142")
    /\ Step([Top EXCEPT !.xy = meshgridRound, !.pc = "L143"], << Ev("meshgrid") >>)

PlayerCompare_L143 ==
    /\ AtPc("Player.compare_with_league", "L143")
    /\ InterpStep(Top.self.data, "xgoals_player", "L148")

PlayerCompare_L148 ==
    /\ AtPc("Player.compare_with_league", "L148")
    /\ Step([Top EXCEPT !.xgoals_player = npWhereNeg(Top.xgoals_player), !.pc = "L151"],
            << Ev("where") >>)

PlayerCompare_L151 ==
    /\ AtPc("Player.compare_with_league", "L151")
    /\ Step([Top EXCEPT !.player_shots_smooth = gaussian_filter(Top.xgoals_player),
                        !.pc = "L154"],
            << Ev("gaussian_filter") >>)

PlayerCompare_L154 ==
    /\ AtPc("Player.compare_with_league", "L154")
    /\ DoCall(LeagueFrame(Top.data.rows), "league_xgoals_smooth", "L157")

PlayerCompare_L157 ==
    /\ AtPc("Player.compare_with_league", "L157")
    /\ Step([Top EXCEPT !.difference = npSubtract(Top.player_shots_smooth,
                                                  Top.league_xgoals_smooth),
                        !.pc = "L160"],
            << Ev("subtract") >>)

PlayerCompare_L160 ==
    /\ AtPc("Player.compare_with_league", "L160")
    /\ SaveAndReturn(ComparisonPath(Top.output_dir, Top.self.player_name), Top.difference)

-----------------------------------------------------------------------------
(* Team.shot_heatmap(self, output_dir)                                     *)

TeamHeatmapFrame(self, output_dir) ==
    Frame("Team.shot_heatmap", "L263",
          [self |-> self, output_dir |-> output_dir, team_data |-> NoneObj,
           xy |-> NoneObj, xgoals_team |-> NoneObj, team_shots_smooth |-> NoneObj])

\* team_data = pd.concat([player.data for player in self.players], ignore_index=True)
ConcatStep(next) ==
    IF Top.self.players = << >>
    THEN DoRaise("ValueError")
    ELSE Step([Top EXCEPT !.team_data = Some(ConcatAll(PlayerFrames(Top.self))),
                          !.pc = next], << >>)

TeamHeatmap_L263 ==
    /\ AtPc("Team.shot_heatmap", "L263")
    /\ ConcatStep("L266")

TeamHeatmap_L266 ==
    /\ AtPc("Team.shot_heatmap", "L266")
    /\ Step([Top EXCEPT !.xy = meshgridRound, !.pc = "L269"], << Ev("meshgrid") >>)

TeamHeatmap_L269 ==
    /\ AtPc("Team.shot_heatmap", "L269")
    /\ InterpStep(Top.team_data.rows, "xgoals_team", "L275")

TeamHeatmap_L275 ==
    /\ AtPc("Team.shot_heatmap", "L275")
    /\ Step([Top EXCEPT !.xgoals_team = npWhereNeg(Top.xgoals_team), !.pc = "L276"],
            << Ev("where") >>)

TeamHeatmap_L276 ==
    /\ AtPc("Team.shot_heatmap", "L276")
    /\ Step([Top EXCEPT !.team_shots_smooth = gaussian_filter(Top.xgoals_team),
                        !.pc = "L279"],
            << Ev("gaussian_filter") >>)

TeamHeatmap_L279 ==
    /\ AtPc("Team.shot_heatmap", "L279")
    /\ SaveAndReturn(HeatmapPath(Top.output_dir, Top.self.team_name), Top.team_shots_smooth)

-----------------------------------------------------------------------------
(* Team.compare_with_league(self, league_data, output_dir)                 *)

TeamCompareFrame(self, league_data, output_dir) ==
    Frame("Team.compare_with_league", "L310",
          [self |-> self, league_data |-> league_data, output_dir |-> output_dir,
           team_data |-> NoneObj, xy |-> NoneObj, xgoals_team |-> NoneObj,
           team_shots_smooth |-> NoneObj, league_xgoals_smooth |-> NoneObj,
           difference |-> NoneObj])

TeamCompare_L310 ==
    /\ AtPc("Team.compare_with_league", "L310")
    /\ Step([Top EXCEPT !.league_data = IF Top.league_data.kind = "None"
                                        THEN Some(Top.self.shot_data)
                                        ELSE Top.league_data,
                        !.pc = "L314"], << >>)

TeamCompare_L314 ==
    /\ AtPc("Team.compare_with_league", "L314")
    /\ ConcatStep("L317")

TeamCompare_L317 ==
    /\ AtPc("Team.compare_with_league", "L317")
    /\ Step([Top EXCEPT !.xy = meshgridRound, !.pc = "L318"], << Ev("meshgrid") >>)

TeamCompare_L318 ==
    /\ AtPc("Team.compare_with_league", "L318")
    /\ InterpStep(Top.team_data.rows, "xgoals_team", "L322")

\* (mutant of TeamCompare_L322: the smoothing statement comes before the clamp)
TeamCompare_L322_SmoothFirst ==
    /\ AtPc("Team.compare_with_league", "L322")
    /\ Step([Top EXCEPT !.team_shots_smooth = gaussian_filter(Top.xgoals_team),
                        !.pc = "L323"],
            << Ev("gaussian_filter") >>)

TeamCompare_L322 ==
    /\ AtPc("Team.compare_with_league", "L322")
    /\ Step([Top EXCEPT !.xgoals_team = npWhereNeg(Top.xgoals_team), !.pc = "L323"],
            << Ev("where") >>)

TeamCompare_L323 ==
    /\ AtPc("Team.compare_with_league", "L323")
    /\ Step([Top EXCEPT !.team_shots_smooth = gaussian_filter(Top.xgoals_team),
                        !.pc = "L326"],
            << Ev("gaussian_filter") >>)

TeamCompare_L326 ==
    /\ AtPc("Team.compare_with_league", "L326")
    /\ DoCall(LeagueFrame(Top.league_data.rows), "league_xgoals_smooth", "L329")

TeamCompare_L329 ==
    /\ AtPc("Team.compare_with_league", "L329")
    /\ Step([Top EXCEPT !.difference = npSubtract(Top.team_shots_smooth,
                                                  Top.league_xgoals_smooth),
                        !.pc = "L332"],
            << Ev("subtract") >>)

TeamCompare_L332 ==
    /\ AtPc("Team.compare_with_league", "L332")
    /\ SaveAndReturn(ComparisonPath(Top.output_dir, Top.self.team_name), Top.difference)

-----------------------------------------------------------------------------
(* The script Main.py                                                      *)

\* player_name = 'Connor McDavid': the shooter the script is written for
ScriptPlayerName == "A"

\* difference[:, :90]
SliceCols == 90

\* blocking: plt.show() waits until every window is closed (an interactive
\* backend); otherwise it returns at once and the figures stay open
ScriptFrame(shots_csv, blocking) ==
    Frame("Main.py", "L9",
          [shots_csv |-> shots_csv, data |-> << >>, blocking |-> blocking,
           xy |-> NoneObj, xgoals |-> NoneObj, xgoals_smooth |-> NoneObj,
           player_name |-> "None", player_shots |-> NoneObj, xgoals_player |-> NoneObj,
           player_shots_smooth |-> NoneObj, difference |-> NoneObj])

\* data = pd.read_csv("shots_2023.csv")
Script_L9 ==
    /\ AtPc("Main.py", "L9")
    /\ Step([Top EXCEPT !.data = Top.shots_csv, !.pc = "L13"], << >>)

Script_L13 ==
    /\ AtPc("Main.py", "L13")
    /\ Step([Top EXCEPT !.data = FilterEq(FilterEq(Top.data, "awaySkatersOnIce", 5),
                                          "homeSkatersOnIce", 5),
                        !.pc = "L14"], << >>)

Script_L14 ==
    /\ AtPc("Main.py", "L14")
    /\ Step([Top EXCEPT !.data = FilterLe(Top.data, "shotDistance", 89), !.pc = "L15"],
            << >>)

Script_L15 ==
    /\ AtPc("Main.py", "L15")
    /\ Step([Top EXCEPT !.data = FilterEq(Top.data, "shotOnEmptyNet", 0), !.pc = "L16"],
            << >>)

Script_L16 ==
    /\ AtPc("Main.py", "L16")
    /\ Step([Top EXCEPT !.data = FilterLe(Top.data, "xCordAdjusted", MaxXCord),
                        !.pc = "L31"], << >>)

Script_L31 ==
    /\ AtPc("Main.py", "L31")
    /\ Step([Top EXCEPT !.xy = meshgridRound, !.pc = "L32"], << Ev("meshgrid") >>)

Script_L32 ==
    /\ AtPc("Main.py", "L32")
    /\ InterpStep(Top.data, "xgoals", "L34")

Script_L34 ==
    /\ AtPc("Main.py", "L34")
    /\ Step([Top EXCEPT !.xgoals = npWhereNeg(Top.xgoals), !.pc = "L46"], << Ev("where") >>)

Script_L46 ==
    /\ AtPc("Main.py", "L46")
    /\ Step([Top EXCEPT !.xgoals_smooth = gaussian_filter(Top.xgoals), !.pc = "L48"],
            << Ev("gaussian_filter") >>)

Script_L56 ==
    /\ AtPc("Main.py", "L56")
    /\ Step([Top EXCEPT !.player_name = ScriptPlayerName,
                        !.player_shots = Some(FilterEq(Top.data, "shooterName",
                                                       ScriptPlayerName)),
                        !.pc = "L59"], << >>)

Script_L59 ==
    /\ AtPc("Main.py", "L59")
    /\ Step([Top EXCEPT !.xy = meshgridRound, !.pc = "L60"], << Ev("meshgrid") >>)

Script_L60 ==
    /\ AtPc("Main.py", "L60")
    /\ InterpStep(Top.player_shots.rows, "xgoals_player", "L61")

Script_L61 ==
    /\ AtPc("Main.py", "L61")
    /\ Step([Top EXCEPT !.xgoals_player = npWhereNeg(Top.xgoals_player), !.pc = "L63"],
            << Ev("where") >>)

Script_L63 ==
    /\ AtPc("Main.py", "L63")
    /\ Step([Top EXCEPT !.player_shots_smooth = gaussian_filter(Top.xgoals_player),
                        !.pc = "L65"],
            << Ev("gaussian_filter") >>)

Script_L72 ==
    /\ AtPc("Main.py", "L72")
    /\ Step([Top EXCEPT !.difference = npSubtract(Top.player_shots_smooth,
                                                  Top.xgoals_smooth),
                        !.pc = "L74"],
            << Ev("subtract") >>)

Script_L80 ==
    /\ AtPc("Main.py", "L80")
    /\ Step([Top EXCEPT !.difference =
                           [Top.difference EXCEPT !.shape = << @[1], SliceCols >>,
                              !.win = [rc \in { w \in Window : w[2] <= SliceCols } |->
                                         Top.difference.win[rc]]],
                        !.pc = "L82"],
            << Ev("slice") >>)

\* the script ends: it has written no file
Script_L94 ==
    /\ AtPc("Main.py", "L94")
    /\ DoReturn(Top.difference)
    /\ UNCHANGED <<fs, trace>>

-----------------------------------------------------------------------------
(* The figures of Main.py: each statement of a plotting block is a step    *)

\* The current figure of pyplot: the one opened last; gcf() opens one if none is
CurrentFigure(figs) == IF figs = << >> THEN << >> ELSE figs[Len(figs)]
Gcf(figs) == IF figs = << >> THEN << << >> >> ELSE figs

\* The plotting blocks: the position of each statement after the figure is
\* made, the array drawn, and
\* whether the colorbar is pyplot's (for the current figure) or the figure's own
PlotBlocks ==
    { [imshow |-> "L49", colorbar |-> "L50", implicit |-> TRUE, title |-> "L51", afterTitle |-> "L52",
       show |-> "L52", wait |-> "L52_wait", next |-> "L56", image |-> "xgoals_smooth"],
      [imshow |-> "L66", colorbar |-> "L67", implicit |-> TRUE, title |-> "L68", afterTitle |-> "L69",
       show |-> "L69", wait |-> "L69_wait", next |-> "L72",
       image |-> "player_shots_smooth"],
      [imshow |-> "L75", colorbar |-> "L76", implicit |-> TRUE, title |-> "L77", afterTitle |-> "L78",
       show |-> "L78", wait |-> "L78_wait", next |-> "L80", image |-> "difference"],
      [imshow |-> "L87", colorbar |-> "L88", implicit |-> FALSE, title |-> "L90", afterTitle |-> "L91",
       show |-> "L93", wait |-> "L93_wait", next |-> "L94", image |-> "difference"] }

\* The script goes on at pc with the open figures figs, having executed ops
Plot(pc, figs, ops) ==
    /\ stack' = SetTop([Top EXCEPT !.pc = pc])
    /\ plt' = figs
    /\ trace' = trace \o ops
    /\ UNCHANGED <<workers, shot_data, cubic, dup_keep, player, team, result, exc, fs, call,
                   done>>

\* fig = plt.figure(...): a new figure, which becomes the current one
Script_L48 ==
    /\ AtPc("Main.py", "L48")
    /\ Plot("L49", Append(plt, << >>), << Ev("figure") >>)

Script_L65 ==
    /\ AtPc("Main.py", "L65")
    /\ Plot("L66", Append(plt, << >>), << Ev("figure") >>)

Script_L74 ==
    /\ AtPc("Main.py", "L74")
    /\ Plot("L75", Append(plt, << >>), << Ev("figure") >>)

\* fig, ax = plt.subplots(...)
Script_L82 ==
    /\ AtPc("Main.py", "L82")
    /\ Plot("L83", Append(plt, << >>), << Ev("subplots") >>)

\* rink = HockeyRink.HockeyRink(...); rink.draw(ax, plot_half=True)
Script_L83 ==
    /\ AtPc("Main.py", "L83")
    /\ Plot("L87", plt, << >>)

\* plt.imshow(array) / ax.imshow(array): drawn on the current figure
Script_Imshow ==
    \E b \in PlotBlocks :
        /\ AtPc("Main.py", b.imshow)
        /\ Plot(b.colorbar,
                [Gcf(plt) EXCEPT ![Len(Gcf(plt))] = Append(@, Top[b.image])],
                << Ev("imshow") >>)

\* plt.colorbar(...): for the image of the current figure, RuntimeError when it
\* has none; fig.colorbar(img, ...): for the image given
Script_Colorbar ==
    \E b \in PlotBlocks :
        /\ AtPc("Main.py", b.colorbar)
        /\ IF b.implicit /\ CurrentFigure(plt) = << >>
           THEN DoRaise("RuntimeError") /\ UNCHANGED <<fs>>
           ELSE Plot(b.title, plt, << Ev("colorbar") >>)

\* plt.title(...)
Script_Title ==
    \E b \in PlotBlocks :
        /\ AtPc("Main.py", b.title)
        /\ Plot(b.afterTitle, Gcf(plt), << Ev("title") >>)

\* plt.axis('off')
Script_L91 ==
    /\ AtPc("Main.py", "L91")
    /\ Plot("L93", Gcf(plt), << >>)

\* plt.show(): returns at once and leaves the figures open, or enters the event
\* loop and waits, the figures open, until every window is closed
Script_Show ==
    \E b \in PlotBlocks :
        /\ AtPc("Main.py", b.show)
        /\ Plot(IF Top.blocking THEN b.wait ELSE b.next, plt, << Ev("show") >>)

\* every window has been closed: plt.show() returns, no figure is left
Script_WindowsClosed ==
    \E b \in PlotBlocks :
        /\ AtPc("Main.py", b.wait)
        /\ Plot(b.next, << >>, << >>)

-----------------------------------------------------------------------------
(* generate_player_report(player_name, data)                               *)

DefaultDistanceThreshold == 20

PlayerReportFrame(player_name, data) ==
    Frame("generate_player_report", "L379",
          [player_name |-> player_name, data |-> data, player |-> NoneObj,
           basic_stats |-> NoneObj, heatmap_image_path |-> NoneObj,
           league_comparison_image_path |-> NoneObj, high_danger_stats |-> NoneObj])

PlayerReport_L379 ==
    /\ AtPc("generate_player_report", "L379")
    /\ LET p == PlayerInit(Top.player_name, Top.data)
       IN  IF p.kind = "raise"
           THEN DoRaise(p.exc)
           ELSE Step([Top EXCEPT !.player = p, !.pc = "L382"], << >>)

PlayerReport_L382 ==
    /\ AtPc("generate_player_report", "L382")
    /\ Step([Top EXCEPT !.basic_stats = PlayerBasicStats(Top.player), !.pc = "L385"], << >>)

PlayerReport_L385 ==
    /\ AtPc("generate_player_report", "L385")
    /\ DoCall(PlayerHeatmapFrame(Top.player, "heatmaps"), "heatmap_image_path", "L388")

PlayerReport_L388 ==
    /\ AtPc("generate_player_report", "L388")
    /\ DoCall(PlayerCompareFrame(Top.player, Some(Top.data), "heatmaps"),
              "league_comparison_image_path", "L391")

PlayerReport_L391 ==
    /\ AtPc("generate_player_report", "L391")
    /\ Step([Top EXCEPT !.high_danger_stats =
                           PlayerHighDanger(Top.player, DefaultDistanceThreshold),
                        !.pc = "L394"], << >>)

\* The PDF: the stats and the two images read from their files
PlayerReport_L394 ==
    /\ AtPc("generate_player_report", "L394")
    /\ IF {Top.heatmap_image_path, Top.league_comparison_image_path} \subseteq DOMAIN fs
       THEN /\ fs' = Put(fs, ReportPath(Top.player_name),
                         [kind |-> "pdf", basic_stats |-> Top.basic_stats,
                          high_danger_stats |-> Top.high_danger_stats,
                          images |-> << fs[Top.heatmap_image_path],
                                        fs[Top.league_comparison_image_path] >>])
            /\ DoReturn(ReportPath(Top.player_name))
            /\ UNCHANGED trace
       ELSE DoRaise("RuntimeError")

-----------------------------------------------------------------------------
(* generate_team_report(team_name, shot_data, team_data)                   *)

HeatmapsDir == "heatmaps"
TeamReportPath(name) == << name, "Team_Report.pdf" >>

\* pdf: the stats lines written and the images embedded so far
TeamReportFrame(team_name, data, team_data) ==
    Frame("generate_team_report", "L447",
          [team_name |-> team_name, shot_data |-> data, team_data |-> team_data,
           team |-> NoneObj, pdf |-> [lines |-> << >>, images |-> << >>],
           team_heatmap_path |-> NoneObj, team_vs_league_path |-> NoneObj,
           i |-> 1, heatmap_path |-> NoneObj, comparison_path |-> NoneObj,
           output_filename |-> NoneObj, finally |-> "None", pending |-> "None"])

TeamReport_L447 ==
    /\ AtPc("generate_team_report", "L447")
    /\ Step([Top EXCEPT !.team = TeamInit(Top.team_name, Top.shot_data, Top.team_data),
                        !.pc = "L451"], << >>)

\* os.makedirs(heatmaps_dir, exist_ok=True); the try statement is entered
TeamReport_L451 ==
    /\ AtPc("generate_team_report", "L451")
    /\ fs' = Put(fs, << HeatmapsDir >>, Directory)
    /\ stack' = SetTop([Top EXCEPT !.finally = "L528", !.pc = "L465"])
    /\ UNCHANGED <<plt, workers, shot_data, cubic, dup_keep, player, team, result, exc, call,
                   trace, done>>

TeamReport_L465 ==
    /\ AtPc("generate_team_report", "L465")
    /\ Step([Top EXCEPT !.pdf.lines = Append(@, TeamBasicStats(Top.team)),
                        !.pc = "L472"], << >>)

TeamReport_L472 ==
    /\ AtPc("generate_team_report", "L472")
    /\ Step([Top EXCEPT !.pdf.lines =
                           Append(@, TeamHighDanger(Top.team, DefaultDistanceThreshold)),
                        !.pc = "L478"], << >>)

TeamReport_L478 ==
    /\ AtPc("generate_team_report", "L478")
    /\ DoCall(TeamHeatmapFrame(Top.team, HeatmapsDir), "team_heatmap_path", "L480")

\* pdf.image(path, ...): the file is read when the image is added
PdfImage(path, next) ==
    IF path \in DOMAIN fs
    THEN Step([Top EXCEPT !.pdf.images = Append(@, fs[path]), !.pc = next], << >>)
    ELSE DoRaise("RuntimeError")

TeamReport_L480 ==
    /\ AtPc("generate_team_report", "L480")
    /\ PdfImage(Top.team_heatmap_path, "L484")

TeamReport_L484 ==
    /\ AtPc("generate_team_report", "L484")
    /\ DoCall(TeamCompareFrame(Top.team, Some(Top.shot_data), HeatmapsDir),
              "team_vs_league_path", "L486")

TeamReport_L486 ==
    /\ AtPc("generate_team_report", "L486")
    /\ PdfImage(Top.team_vs_league_path, "L489")

\* for player in team.players
TeamReport_L489 ==
    /\ AtPc("generate_team_report", "L489")
    /\ Step([Top EXCEPT !.pc = IF Top.i <= Len(Top.team.players) THEN "L493" ELSE "L523"],
            << >>)

TeamReport_L493 ==
    /\ AtPc("generate_team_report", "L493")
    /\ LET p == Top.team.players[Top.i]
       IN  Step([Top EXCEPT !.pdf.lines =
                              @ \o << PlayerBasicStats(p),
                                      PlayerHighDanger(p, DefaultDistanceThreshold) >>,
                           !.pc = "L510"], << >>)

TeamReport_L510 ==
    /\ AtPc("generate_team_report", "L510")
    /\ DoCall(PlayerHeatmapFrame(Top.team.players[Top.i], HeatmapsDir),
              "heatmap_path", "L513")

TeamReport_L513 ==
    /\ AtPc("generate_team_report", "L513")
    /\ PdfImage(Top.heatmap_path, "L516")

TeamReport_L516 ==
    /\ AtPc("generate_team_report", "L516")
    /\ DoCall(PlayerCompareFrame(Top.team.players[Top.i], Some(Top.shot_data),
                                 HeatmapsDir),
              "comparison_path", "L519")

TeamReport_L519 ==
    /\ AtPc("generate_team_report", "L519")
    /\ IF Top.comparison_path \in DOMAIN fs
       THEN Step([Top EXCEPT !.pdf.images = Append(@, fs[Top.comparison_path]),
                             !.i = @ + 1, !.pc = "L489"], << >>)
       ELSE DoRaise("RuntimeError")

\* pdf.output(output_filename); the try block ends and the finally block follows
TeamReport_L523 ==
    /\ AtPc("generate_team_report", "L523")
    /\ fs' = Put(fs, TeamReportPath(Top.team_name),
                 [kind |-> "pdf", lines |-> Top.pdf.lines, images |-> Top.pdf.images])
    /\ stack' = SetTop([Top EXCEPT !.output_filename = TeamReportPath(Top.team_name),
                                   !.finally = "None", !.pc = "L528"])
    /\ UNCHANGED <<plt, workers, shot_data, cubic, dup_keep, player, team, result, exc, call,
                   trace, done>>

\* The files of the heatmaps directory: os.listdir(heatmaps_dir)
HeatmapFiles(files) == { q \in DOMAIN files : q[1] = HeatmapsDir /\ Len(q) > 1 }

\* largest number of files of one clean-up that os.remove fails to remove
MaxRemoveFailures == 1

\* The files os.remove may fail on: any of the directory, up to the bound
RemoveFailures(files) ==
    { F \in SUBSET HeatmapFiles(files) : Cardinality(F) <= MaxRemoveFailures }

\* finally: if the directory exists, os.remove for every file of it; a removal
\* that fails is printed and the file stays
TeamReport_L528 ==
    /\ AtPc("generate_team_report", "L528")
    /\ IF << HeatmapsDir >> \in DOMAIN fs
       THEN /\ \E failed \in RemoveFailures(fs) :
                  fs' = [q \in (DOMAIN fs \ HeatmapFiles(fs)) \cup failed |-> fs[q]]
            /\ stack' = SetTop([Top EXCEPT !.pc = "L535"])
       ELSE /\ stack' = SetTop([Top EXCEPT !.pc = "L536"])
            /\ UNCHANGED fs
    /\ UNCHANGED <<plt, workers, shot_data, cubic, dup_keep, player, team, result, exc, call,
                   trace, done>>

\* (mutant of TeamReport_L535: the directory is left)
TeamReport_L535_NoRmdir ==
    /\ AtPc("generate_team_report", "L535")
    /\ IF HeatmapFiles(fs) # {}
       THEN DoRaise("OSError")
       ELSE /\ stack' = SetTop([Top EXCEPT !.pc = "L536"])
            /\ UNCHANGED <<plt, workers, shot_data, cubic, dup_keep, player, team, result,
                           exc, fs, call, trace, done>>

\* os.rmdir(heatmaps_dir): OSError when a file is left in the directory, which
\* takes the place of a pending exception
TeamReport_L535 ==
    /\ AtPc("generate_team_report", "L535")
    /\ IF HeatmapFiles(fs) # {}
       THEN DoRaise("OSError")
       ELSE /\ fs' = [q \in DOMAIN fs \ {<< HeatmapsDir >>} |-> fs[q]]
            /\ stack' = SetTop([Top EXCEPT !.pc = "L536"])
            /\ UNCHANGED <<plt, workers, shot_data, cubic, dup_keep, player, team, result,
                           exc, call, trace, done>>

\* the finally block ends: a pending exception goes on to the caller
TeamReport_L536 ==
    /\ AtPc("generate_team_report", "L536")
    /\ IF Top.pending # "None"
       THEN DoRaise(Top.pending)
       ELSE Step([Top EXCEPT !.pc = "L537"], << >>)

TeamReport_L537 ==
    /\ AtPc("generate_team_report", "L537")
    /\ DoReturn(Top.output_filename)
    /\ UNCHANGED <<fs, trace>>

-----------------------------------------------------------------------------
(* import_clean_data(data_file)                                            *)

\* largest number of rows of the raw pool a csv file holds
MaxRaw == 3

\* A row of the csv file; xGoal in tenths
Raw(away, home, dist, net, x, y, p) ==
    [awaySkatersOnIce |-> away, homeSkatersOnIce |-> home, shotDistance |-> dist,
     shotOnEmptyNet |-> net, xCordAdjusted |-> x, yCordAdjusted |-> y, xGoal |-> p]

\* One row that every rule keeps and is within the rink; one row per rule that
\* drops it; rows that every rule keeps with x < 0, |y| > 42.5, xGoal > 1
RawPool ==
    << Raw(5, 5, 42, 0, 87, -42, 1),
       Raw(5, 4, 42, 0, 87, -42, 1),
       Raw(5, 5, 90, 0, 10, 40, 1),
       Raw(5, 5, 42, 1, 87, -42, 9),
       Raw(5, 5, 10, 0, 95, 8, 2),
       Raw(5, 5, 60, 0, -5, 43, 1),
       Raw(5, 5, 30, 0, 60, 0, 15) >>

RawTables == Tables(RawPool, MaxRaw)

ImportFrame(data_file) ==
    Frame("import_clean_data", "L27", [data_file |-> data_file, data |-> << >>])

\* data = pd.read_csv(data_file)
Import_L27 ==
    /\ AtPc("import_clean_data", "L27")
    /\ Step([Top EXCEPT !.data = Top.data_file, !.pc = "L28"], << >>)

\* data = data[(data['awaySkatersOnIce'] == 5) & (data['homeSkatersOnIce'] == 5)]
Import_L28 ==
    /\ AtPc("import_clean_data", "L28")
    /\ Step([Top EXCEPT !.data = FilterEq(FilterEq(Top.data, "awaySkatersOnIce", 5),
                                          "homeSkatersOnIce", 5),
                        !.pc = "L29"], << >>)

Import_L29 ==
    /\ AtPc("import_clean_data", "L29")
    /\ Step([Top EXCEPT !.data = FilterLe(Top.data, "shotDistance", 89), !.pc = "L30"],
            << >>)

Import_L30 ==
    /\ AtPc("import_clean_data", "L30")
    /\ Step([Top EXCEPT !.data = FilterEq(Top.data, "shotOnEmptyNet", 0), !.pc = "L31"],
            << >>)

Import_L31 ==
    /\ AtPc("import_clean_data", "L31")
    /\ Step([Top EXCEPT !.data = FilterLe(Top.data, "xCordAdjusted", MaxXCord),
                        !.pc = "L32"], << >>)

Import_L32 ==
    /\ AtPc("import_clean_data", "L32")
    /\ DoReturn(Some(Top.data))
    /\ UNCHANGED <<fs, trace>>

-----------------------------------------------------------------------------
(* The script main.py                                                      *)

\* 'Connor McDavid' and 'OTT'
MainPlayerName == "A"
MainTeamName == "T1"

\* A row of shots_2023.csv that import_clean_data drops
EmptyNetShot == [Shot("A", 60, 0, 9, 60, "GOAL") EXCEPT !.shotOnEmptyNet = 1]
ShortHandedShot == [Shot("A", 88, -41, 2, 41, "SHOT") EXCEPT !.homeSkatersOnIce = 4]

MainFrame(shots_csv, skaters_csv) ==
    Frame("main.py", "L4",
          [shots_csv |-> shots_csv, skaters_csv |-> skaters_csv,
           shoot_data |-> NoneObj, team_data |-> NoneObj])

Main_L4 ==
    /\ AtPc("main.py", "L4")
    /\ DoCall(ImportFrame(Top.shots_csv), "shoot_data", "L5")

Main_L5 ==
    /\ AtPc("main.py", "L5")
    /\ Step([Top EXCEPT !.team_data = Some(Top.skaters_csv), !.pc = "L7"], << >>)

\* generate_player_report('Connor McDavid', shoot_data): the file name is dropped
Main_L7 ==
    /\ AtPc("main.py", "L7")
    /\ DoCall(PlayerReportFrame(MainPlayerName, Top.shoot_data.rows), "None", "L9")

\* generate_team_report('OTT', shoot_data, team_data), in the same process and on
\* the files the player report has left
Main_L9 ==
    /\ AtPc("main.py", "L9")
    /\ DoCall(TeamReportFrame(MainTeamName, Top.shoot_data.rows, Top.team_data.rows),
              "None", "L10")

\* the script ends
Main_L10 ==
    /\ AtPc("main.py", "L10")
    /\ DoReturn(NoneObj)
    /\ UNCHANGED <<fs, trace>>

-----------------------------------------------------------------------------
(* A session: one shot table; either a module-level function is called, or *)
(* an object is constructed and one of its methods is called               *)

Idle == stack = << >> /\ ~done
NoObject == player.kind = "None" /\ team.kind = "None"

\* Begin the top-level call c with frame f
Begin(c, f) ==
    /\ call' = c
    /\ stack' = << f >>
    /\ UNCHANGED <<plt, workers, shot_data, cubic, dup_keep, player, team, result, exc, fs, trace, done>>

\* player = Player(player_name, shot_data)
NewPlayer(player_name) ==
    /\ Idle /\ NoObject /\ call.kind = "None"
    /\ call' = [kind |-> "call", fn |-> "Player", player_name |-> player_name]
    /\ LET p == PlayerInit(player_name, shot_data)
       IN  IF p.kind = "raise"
           THEN exc' = p.exc /\ done' = TRUE /\ UNCHANGED player
           ELSE player' = p /\ UNCHANGED <<exc, done>>
    /\ UNCHANGED <<plt, workers, shot_data, cubic, dup_keep, team, stack, result, fs, trace>>

\* team = Team(team_name, shot_data, skaters_data)
NewTeam(team_name, skaters_data) ==
    /\ Idle /\ NoObject /\ call.kind = "None"
    /\ call' = [kind |-> "call", fn |-> "Team", team_name |-> team_name]
    /\ team' = TeamInit(team_name, shot_data, skaters_data)
    /\ UNCHANGED <<plt, workers, shot_data, cubic, dup_keep, player, stack, result, exc, fs, trace, done>>

CallLeague ==
    /\ Idle /\ NoObject
    /\ Begin([kind |-> "call", fn |-> "generate_league_xgoals_smooth", data |-> shot_data],
             LeagueFrame(shot_data))

CallPlayerHeatmap ==
    /\ Idle /\ player.kind = "Player"
    /\ Begin([kind |-> "call", fn |-> "Player.shot_heatmap"],
             PlayerHeatmapFrame(player, "heatmaps"))

CallPlayerCompare(data) ==
    /\ Idle /\ player.kind = "Player"
    /\ Begin([kind |-> "call", fn |-> "Player.compare_with_league", data |-> data],
             PlayerCompareFrame(player, data, "heatmaps"))

CallTeamHeatmap ==
    /\ Idle /\ team.kind = "Team"
    /\ Begin([kind |-> "call", fn |-> "Team.shot_heatmap"],
             TeamHeatmapFrame(team, "heatmaps"))

CallTeamCompare(league_data) ==
    /\ Idle /\ team.kind = "Team"
    /\ Begin([kind |-> "call", fn |-> "Team.compare_with_league",
              league_data |-> league_data],
             TeamCompareFrame(team, league_data, "heatmaps"))

\* shots_2023.csv: the rows of the session's table, alone or among rows that the
\* cleaning drops
ScriptCsvs == { shot_data, << EmptyNetShot >> \o shot_data \o << ShortHandedShot >> }

\* python Main.py
RunScript(shots_csv, blocking) ==
    /\ Idle /\ NoObject
    /\ Begin([kind |-> "call", fn |-> "Main.py"], ScriptFrame(shots_csv, blocking))

CallTeamReport(team_name, team_data) ==
    /\ Idle /\ NoObject
    /\ Begin([kind |-> "call", fn |-> "generate_team_report", team_name |-> team_name,
              team_data |-> team_data],
             TeamReportFrame(team_name, shot_data, team_data))

\* The distance thresholds the sessions call high_danger_shots with
Thresholds == {DefaultDistanceThreshold, 40, 42}

\* team.get_basic_stats(): straight-line code, no call that can raise
CallTeamBasicStats ==
    /\ Idle /\ team.kind = "Team"
    /\ call' = [kind |-> "call", fn |-> "Team.get_basic_stats"]
    /\ result' = TeamBasicStats(team)
    /\ done' = TRUE
    /\ UNCHANGED <<plt, workers, shot_data, cubic, dup_keep, player, team, stack, exc, fs,
                   trace>>

\* team.high_danger_shots(distance_threshold)
CallTeamHighDanger(distance_threshold) ==
    /\ Idle /\ team.kind = "Team"
    /\ call' = [kind |-> "call", fn |-> "Team.high_danger_shots",
                distance_threshold |-> distance_threshold]
    /\ result' = TeamHighDanger(team, distance_threshold)
    /\ done' = TRUE
    /\ UNCHANGED <<plt, workers, shot_data, cubic, dup_keep, player, team, stack, exc, fs,
                   trace>>

CallPlayerReport(player_name) ==
    /\ Idle /\ NoObject
    /\ Begin([kind |-> "call", fn |-> "generate_player_report",
              player_name |-> player_name],
             PlayerReportFrame(player_name, shot_data))

\* shots_2023.csv: the rows of the session's table, alone or after a row that
\* the cleaning drops
MainCsvs == { shot_data, << EmptyNetShot >> \o shot_data }

\* python main.py, with the two csv files
RunMain(shots_csv, skaters_csv) ==
    /\ Idle /\ NoObject
    /\ Begin([kind |-> "call", fn |-> "main.py", skaters_csv |-> skaters_csv],
             MainFrame(shots_csv, skaters_csv))

-----------------------------------------------------------------------------

HasDuplicatePosition(df) ==
    \E i \in 1..Len(df), j \in 1..Len(df) : i # j /\ Pos(df[i]) = Pos(df[j])

\* The entries of cubic and dup_keep that no interpolation of the session reads
\* are fixed, so that each session is explored once
Init ==
    /\ shot_data \in ShotTables
    /\ cubic \in [FreeNodes -> CubicVals]
    /\ \A q \in FreeNodes :
          ~(CanTriangulate(Points(shot_data)) /\ InHull(q, Points(shot_data)))
             => cubic[q] = -1
    /\ dup_keep \in {"first", "last"}
    /\ ~HasDuplicatePosition(shot_data) => dup_keep = "first"
    /\ player = NoneObj
    /\ team = NoneObj
    /\ stack = << >>
    /\ result = NoneObj
    /\ exc = "None"
    /\ fs = << >>
    /\ call = NoneObj
    /\ trace = << >>
    /\ done = FALSE
    /\ plt = << >>
    /\ workers = << >>

Next ==
    \/ \E n \in PlayerNames : NewPlayer(n)
    \/ \E t \in TeamNames, sk \in RosterTables : NewTeam(t, sk)
    \/ CallLeague
    \/ CallPlayerHeatmap
    \/ \E d \in {NoneObj, Some(shot_data)} : CallPlayerCompare(d)
    \/ CallTeamHeatmap
    \/ \E d \in {NoneObj, Some(shot_data)} : CallTeamCompare(d)
    \/ \E csv \in ScriptCsvs : \E b \in BOOLEAN : RunScript(csv, b)
    \/ \E csv \in MainCsvs : \E sk \in RosterTables : RunMain(csv, sk)
    \/ Main_L4 \/ Main_L5 \/ Main_L7 \/ Main_L9 \/ Main_L10
    \/ Import_L27 \/ Import_L28 \/ Import_L29 \/ Import_L30 \/ Import_L31 \/ Import_L32
    \/ \E n \in PlayerNames : CallPlayerReport(n)
    \/ CallTeamBasicStats
    \/ \E t \in TeamNames, sk \in RosterTables : CallTeamReport(t, sk)
    \/ TeamReport_L447 \/ TeamReport_L451 \/ TeamReport_L465 \/ TeamReport_L472
    \/ TeamReport_L478 \/ TeamReport_L480 \/ TeamReport_L484 \/ TeamReport_L486
    \/ TeamReport_L489 \/ TeamReport_L493 \/ TeamReport_L510 \/ TeamReport_L513
    \/ TeamReport_L516 \/ TeamReport_L519 \/ TeamReport_L523 \/ TeamReport_L528
    \/ TeamReport_L535 \/ TeamReport_L536
    \/ TeamReport_L537
    \/ \E th \in Thresholds : CallTeamHighDanger(th)
    \/ League_L46 \/ League_L49 \/ League_L56 \/ League_L59 \/ League_L61
    \/ PlayerHeatmap_L101 \/ PlayerHeatmap_L102 \/ PlayerHeatmap_L106
    \/ PlayerHeatmap_L107 \/ PlayerHeatmap_L110
    \/ PlayerCompare_L139 \/ PlayerCompare_L142 \/ PlayerCompare_L143
    \/ PlayerCompare_L148 \/ PlayerCompare_L151 \/ PlayerCompare_L154
    \/ PlayerCompare_L157 \/ PlayerCompare_L160
    \/ TeamHeatmap_L263 \/ TeamHeatmap_L266 \/ TeamHeatmap_L269
    \/ TeamHeatmap_L275 \/ TeamHeatmap_L276 \/ TeamHeatmap_L279
    \/ TeamCompare_L310 \/ TeamCompare_L314 \/ TeamCompare_L317 \/ TeamCompare_L318
    \/ TeamCompare_L322 \/ TeamCompare_L323 \/ TeamCompare_L326 \/ TeamCompare_L329
    \/ TeamCompare_L332
    \/ Script_L31 \/ Script_L32 \/ Script_L34 \/ Script_L46 \/ Script_L56
    \/ Script_L59 \/ Script_L60 \/ Script_L61 \/ Script_L63 \/ Script_L72
    \/ Script_L9 \/ Script_L13 \/ Script_L14 \/ Script_L15 \/ Script_L16
    \/ Script_L48 \/ Script_L65 \/ Script_L74 \/ Script_L83 \/ Script_L91
    \/ Script_Imshow \/ Script_Colorbar \/ Script_Title \/ Script_Show
    \/ Script_WindowsClosed
    \/ Script_L80 \/ Script_L82 \/ Script_L94
    \/ PlayerReport_L379 \/ PlayerReport_L382 \/ PlayerReport_L385
    \/ PlayerReport_L388 \/ PlayerReport_L391 \/ PlayerReport_L394

Spec == Init /\ [][Next]_vars

-----------------------------------------------------------------------------
(* A session that only cleans a csv file                                   *)

CallImport(data_file) ==
    /\ Idle /\ NoObject /\ call.kind = "None"
    /\ Begin([kind |-> "call", fn |-> "import_clean_data", data_file |-> data_file],
             ImportFrame(data_file))

InitImport ==
    /\ shot_data = << >>
    /\ cubic = [q \in FreeNodes |-> -1]
    /\ dup_keep = "first"
    /\ player = NoneObj
    /\ team = NoneObj
    /\ stack = << >>
    /\ result = NoneObj
    /\ exc = "None"
    /\ fs = << >>
    /\ call = NoneObj
    /\ trace = << >>
    /\ done = FALSE
    /\ plt = << >>
    /\ workers = << >>

NextImport ==
    \/ \E t \in RawTables : CallImport(t)
    \/ Import_L27 \/ Import_L28 \/ Import_L29 \/ Import_L30 \/ Import_L31 \/ Import_L32

SpecImport == InitImport /\ [][NextImport]_vars

-----------------------------------------------------------------------------
(* Sessions on a shot table with rows whose xGoal field is empty           *)

\* Rows 1 and 4 share one position; rows 2 and 4 have no xGoal
NaNPool ==
    << Shot("A", 87, -42, 1, 42, "SHOT"),
       Shot("A", 89, -42, NaN, 42, "GOAL"),
       Shot("A", 88, -40, 2, 40, "SHOT"),
       Shot("B", 87, -42, NaN, 42, "GOAL") >>

NaNTables ==
    { t \in Tables(NaNPool, MaxShots) : \E k \in 1..Len(t) : t[k].xGoal = NaN }

InitNaN ==
    /\ shot_data \in NaNTables
    /\ cubic \in [FreeNodes -> CubicVals]
    /\ \A q \in FreeNodes :
          ~(CanTriangulate(Points(shot_data)) /\ InHull(q, Points(shot_data)))
             => cubic[q] = -1
    /\ dup_keep \in {"first", "last"}
    /\ ~HasDuplicatePosition(shot_data) => dup_keep = "first"
    /\ player = NoneObj
    /\ team = NoneObj
    /\ stack = << >>
    /\ result = NoneObj
    /\ exc = "None"
    /\ fs = << >>
    /\ call = NoneObj
    /\ trace = << >>
    /\ done = FALSE
    /\ plt = << >>
    /\ workers = << >>

SpecNaN == InitNaN /\ [][Next]_vars

-----------------------------------------------------------------------------
(* Two shot_heatmap calls running side by side in one interpreter, without *)
(* locks: each statement is a step, the steps of the two calls interleave  *)

\* Two players with three records each, on the same three positions
ParTable ==
    << Shot("A", 87, -42, 1, 42, "SHOT"),
       Shot("A", 89, -42, 3, 42, "GOAL"),
       Shot("A", 88, -40, 2, 40, "SHOT"),
       Shot("B", 87, -42, 3, 42, "GOAL"),
       Shot("B", 89, -42, 1, 42, "SHOT"),
       Shot("B", 88, -40, 1, 40, "MISS") >>

ParRoster == << [name |-> "A", team |-> "T1"], [name |-> "B", team |-> "T1"] >>

\* A call of shot_heatmap on a Player or a Team, about to start
Job(self) ==
    [fn |-> IF self.kind = "Player" THEN "Player.shot_heatmap" ELSE "Team.shot_heatmap",
     self |-> self, pc |-> "estimate", smooth |-> NoneObj, exc |-> "None",
     output_dir |-> "heatmaps",
     output_path |-> HeatmapPath("heatmaps", IF self.kind = "Player"
                                             THEN self.player_name ELSE self.team_name)]

Jobs ==
    { Job(PlayerInit("A", ParTable)), Job(PlayerInit("B", ParTable)),
      Job(TeamInit("T1", ParTable, ParRoster)) }

WorkerAt(w, pc) == w \in DOMAIN workers /\ workers[w].pc = pc

ParStep(w, pc) ==
    /\ workers' = [workers EXCEPT ![w].pc = pc]
    /\ UNCHANGED <<shot_data, cubic, dup_keep, player, team, stack, result, exc, call,
                   trace, done>>

\* The exception e ends the call of worker w
ParRaise(w, e) ==
    /\ workers' = [workers EXCEPT ![w].pc = "raised", ![w].exc = e]
    /\ UNCHANGED <<shot_data, cubic, dup_keep, player, team, stack, result, exc, call,
                   trace, done>>

\* The records of the call, the grid, griddata, np.where, gaussian_filter: the
\* statements that touch the call's own locals only
Par_Estimate(w) ==
    /\ WorkerAt(w, "estimate")
    /\ LET self == workers[w].self
           rows == IF self.kind = "Player" THEN self.data
                   ELSE ConcatAll(PlayerFrames(self))
           g    == griddata(rows, meshgridRound, cubic, dup_keep)
       IN  workers' = [workers EXCEPT
                         ![w].smooth = IF g.kind = "raise" THEN NoneObj
                                       ELSE gaussian_filter(npWhereNeg(g)),
                         ![w].exc = IF g.kind = "raise" THEN g.exc ELSE "None",
                         ![w].pc = IF g.kind = "raise" THEN "raised" ELSE "makedirs"]
    /\ UNCHANGED <<shot_data, cubic, dup_keep, player, team, stack, result, exc, fs, call,
                   trace, done, plt>>

\* os.makedirs(output_dir, exist_ok=True)
Par_Makedirs(w) ==
    /\ WorkerAt(w, "makedirs")
    /\ fs' = Put(fs, << workers[w].output_dir >>, Directory)
    /\ ParStep(w, "figure")
    /\ UNCHANGED plt

\* fig = plt.figure(...): a new figure, which becomes the current one
Par_Figure(w) ==
    /\ WorkerAt(w, "figure")
    /\ plt' = Append(plt, << >>)
    /\ ParStep(w, "imshow")
    /\ UNCHANGED fs

\* plt.imshow(smooth): drawn on the current figure (a new one if none is open)
Par_Imshow(w) ==
    /\ WorkerAt(w, "imshow")
    /\ plt' = [Gcf(plt) EXCEPT ![Len(Gcf(plt))] = Append(@, workers[w].smooth)]
    /\ ParStep(w, "colorbar")
    /\ UNCHANGED fs

\* plt.colorbar(...): for the image drawn last on the current figure;
\* RuntimeError when that figure has no image
Par_Colorbar(w) ==
    /\ WorkerAt(w, "colorbar")
    /\ plt' = Gcf(plt)
    /\ IF CurrentFigure(plt) = << >>
       THEN ParRaise(w, "RuntimeError")
       ELSE ParStep(w, "title")
    /\ UNCHANGED fs

\* plt.title(...): on the axes of the current figure (a new one if none is open)
Par_Title(w) ==
    /\ WorkerAt(w, "title")
    /\ plt' = Gcf(plt)
    /\ ParStep(w, "savefig")
    /\ UNCHANGED fs

\* plt.savefig(output_path): the current figure, showing the image drawn last
Par_Savefig(w) ==
    /\ WorkerAt(w, "savefig")
    /\ LET cur == CurrentFigure(plt)
       IN  /\ fs' = Put(fs, workers[w].output_path,
                        [kind |-> "png",
                         img |-> IF cur = << >> THEN NoneObj ELSE cur[Len(cur)]])
           /\ plt' = Gcf(plt)
    /\ ParStep(w, "close")

\* plt.close(): closes the current figure
Par_Close(w) ==
    /\ WorkerAt(w, "close")
    /\ plt' = IF plt = << >> THEN plt ELSE SubSeq(plt, 1, Len(plt) - 1)
    /\ ParStep(w, "return")
    /\ UNCHANGED fs

\* return output_path
Par_Return(w) ==
    /\ WorkerAt(w, "return")
    /\ ParStep(w, "returned")
    /\ UNCHANGED <<fs, plt>>

InitPar ==
    /\ shot_data = ParTable
    /\ cubic \in [FreeNodes -> CubicVals]
    /\ dup_keep \in {"first", "last"}
    /\ player = NoneObj
    /\ team = NoneObj
    /\ stack = << >>
    /\ result = NoneObj
    /\ exc = "None"
    /\ fs = << >>
    /\ call = NoneObj
    /\ trace = << >>
    /\ done = FALSE
    /\ plt = << >>
    /\ workers \in { << a, b >> : a \in Jobs, b \in Jobs }
    /\ workers[1].fn = "Player.shot_heatmap"
    /\ workers[1].output_path # workers[2].output_path

NextPar ==
    \E w \in {1, 2} :
        \/ Par_Estimate(w) \/ Par_Makedirs(w) \/ Par_Figure(w) \/ Par_Imshow(w)
        \/ Par_Colorbar(w) \/ Par_Title(w) \/ Par_Savefig(w) \/ Par_Close(w)
        \/ Par_Return(w)

SpecPar == InitPar /\ [][NextPar]_vars

-----------------------------------------------------------------------------
(* Properties                                                              *)

Frames == { stack[k] : k \in 1..Len(stack) }
Has(f, field) == field \in DOMAIN f
Cells == (1..HeightSamples) \X (1..WidthSamples)
AllZero(surface) == \A rc \in DOMAIN surface.win : surface.win[rc] = 0

\* The frames about to smooth an interpolated and clamped array, that array and
\* the records it was interpolated from
AtSmooth(f) ==
    \/ f.fn = "generate_league_xgoals_smooth" /\ f.pc = "L59"
    \/ f.fn = "Player.shot_heatmap" /\ f.pc = "L107"
    \/ f.fn = "Player.compare_with_league" /\ f.pc = "L151"
    \/ f.fn = "Team.shot_heatmap" /\ f.pc = "L276"
    \/ f.fn = "Team.compare_with_league" /\ f.pc = "L323"
    \/ f.fn = "Main.py" /\ f.pc \in {"L46", "L63"}

ClampedOf(f) ==
    CASE f.fn = "generate_league_xgoals_smooth" -> f.league_xgoals
      [] f.fn \in {"Player.shot_heatmap", "Player.compare_with_league"} -> f.xgoals_player
      [] f.fn \in {"Team.shot_heatmap", "Team.compare_with_league"} -> f.xgoals_team
      [] f.fn = "Main.py" -> IF f.pc \in {"L34", "L46"} THEN f.xgoals ELSE f.xgoals_player

\* The frames that have just interpolated and are about to clamp
AtClamp(f) ==
    \/ f.fn = "generate_league_xgoals_smooth" /\ f.pc = "L56"
    \/ f.fn = "Player.shot_heatmap" /\ f.pc = "L106"
    \/ f.fn = "Player.compare_with_league" /\ f.pc = "L148"
    \/ f.fn = "Team.shot_heatmap" /\ f.pc = "L275"
    \/ f.fn = "Team.compare_with_league" /\ f.pc = "L322"
    \/ f.fn = "Main.py" /\ f.pc \in {"L34", "L61"}

RecordsOf(f) ==
    CASE f.fn = "generate_league_xgoals_smooth" -> f.data
      [] f.fn \in {"Player.shot_heatmap", "Player.compare_with_league"} -> f.self.data
      [] f.fn \in {"Team.shot_heatmap", "Team.compare_with_league"} -> f.team_data.rows
      [] f.fn = "Main.py" -> IF f.pc \in {"L34", "L46"} THEN f.data ELSE f.player_shots.rows

\* At least 4 distinct points, not all on one line
FourNonCollinear(df) == Cardinality(Points(df)) >= 4 /\ CanTriangulate(Points(df))

EstOps == {"griddata", "where", "gaussian_filter"}

\* The estimation operation the same function executed last before entry k of
\* the history, or "none"
PrevEstOp(k) ==
    LET js == { j \in 1..(k - 1) : /\ trace[j].fn = trace[k].fn
                                    /\ trace[j].depth = trace[k].depth
                                    /\ trace[j].op \in EstOps }
    IN  IF js = {} THEN "none"
        ELSE trace[CHOOSE j \in js : \A i \in js : i <= j].op

LastEstOp(fn) ==
    LET js == { j \in 1..Len(trace) : trace[j].fn = fn /\ trace[j].op \in EstOps }
    IN  IF js = {} THEN "none"
        ELSE trace[CHOOSE j \in js : \A i \in js : i <= j].op

EstimationFns ==
    {"generate_league_xgoals_smooth", "Player.shot_heatmap", "Player.compare_with_league",
     "Team.shot_heatmap", "Team.compare_with_league", "Main.py"}

\* C1: in every estimation path the interpolation (fill value 0 outside the hull)
\* comes first, the clamp follows the interpolation directly, the smoothing
\* follows the clamp directly, nothing is clamped after the smoothing, and a call
\* that returns has smoothed whatever it interpolated.
C1_PipelineOrder ==
    /\ \A k \in 1..Len(trace) :
          /\ trace[k].fn \in EstimationFns
          /\ trace[k].op = "griddata" => PrevEstOp(k) \in {"none", "gaussian_filter"}
          /\ trace[k].op = "where" => PrevEstOp(k) = "griddata"
          /\ trace[k].op = "gaussian_filter" => PrevEstOp(k) = "where"
    /\ \A f \in Frames :
          AtClamp(f) => /\ LastEstOp(f.fn) = "griddata"
                        /\ ClampedOf(f).rest = FillValue
    /\ (done /\ exc = "None") =>
          \A fn \in EstimationFns : LastEstOp(fn) \in {"none", "gaussian_filter"}

\* C1 witness: Team.compare_with_league has interpolated, clamped and smoothed the
\* team's records and then the league's, and has subtracted
C1_Witness ==
    /\ AtPc("Team.compare_with_league", "L332")
    /\ LastEstOp("Team.compare_with_league") = "gaussian_filter"
    /\ LastEstOp("generate_league_xgoals_smooth") = "gaussian_filter"

\* C2: for records with at least 4 non-collinear points, every cell of the
\* interpolated array is >= 0 after the clamp and before the smoothing.
C2_ClampedNonNegative ==
    \A f \in Frames :
        (AtSmooth(f) /\ FourNonCollinear(RecordsOf(f)))
           => \A rc \in Cells : At(ClampedOf(f), rc[1], rc[2]) >= 0

\* C2 witness: an array of 4 non-collinear points about to be smoothed, with a
\* cell inside the hull where the cubic interpolant is negative, now 0
C2_Witness ==
    \E f \in Frames :
        /\ AtSmooth(f) /\ FourNonCollinear(RecordsOf(f))
        /\ \E rc \in DOMAIN ClampedOf(f).cells :
              LET q == << f.xy.xs[rc[2]], f.xy.ys[rc[1]] >>
              IN  /\ q \in FreeNodes /\ q \notin Points(RecordsOf(f))
                  /\ cubic[q] < 0
                  /\ ClampedOf(f).cells[rc] = 0

\* The records Team.shot_heatmap interpolates
TeamRecords(t) == ConcatAll(PlayerFrames(t))
IsCall(fn) == call.kind = "call" /\ call.fn = fn
FullShape == << HeightSamples, WidthSamples >>

\* C3: an estimation given an empty record set, or fewer than 4 non-collinear
\* points, does not fail and yields a surface of the grid's shape whose cells are
\* all 0 (stated for generate_league_xgoals_smooth and Team.shot_heatmap).
C3_FallbackAllZero ==
    /\ (done /\ IsCall("generate_league_xgoals_smooth") /\ ~FourNonCollinear(call.data))
          => /\ exc = "None"
             /\ result.kind = "surface"
             /\ result.shape = FullShape
             /\ AllZero(result)
    /\ (done /\ IsCall("Team.shot_heatmap") /\ ~FourNonCollinear(TeamRecords(team)))
          => /\ exc = "None"
             /\ result \in DOMAIN fs
             /\ fs[result].img.shape = FullShape
             /\ AllZero(fs[result].img)

\* C3 case reached: generate_league_xgoals_smooth called on an empty table ends
\* with the exception of the interpolation
C3_Witness ==
    /\ done /\ IsCall("generate_league_xgoals_smooth") /\ Len(call.data) = 0
    /\ exc = "ValueError"

RosterMatches(t) == FilterEq(t.skaters_data, "team", t.team_name)

\* C4: a team identifier matching zero roster entries raises EmptyScope, so no Team
\* with zero roster matches is ever constructed; a team whose roster entries are
\* players without shots gets a valid all-zero surface from shot_heatmap.
C4_EmptyScopeDistinct ==
    /\ team.kind = "Team" => Len(RosterMatches(team)) > 0
    /\ (IsCall("Team") /\ team.kind = "None") => exc = "EmptyScope"
    /\ (done /\ IsCall("Team.shot_heatmap") /\ Len(RosterMatches(team)) > 0
            /\ Len(team.players) = 0)
          => /\ exc = "None"
             /\ result \in DOMAIN fs
             /\ AllZero(fs[result].img)

\* C4 case reached: a Team constructed for an identifier with zero roster matches,
\* whose shot_heatmap ends with the exception of the concatenation
C4_Witness ==
    /\ done /\ IsCall("Team.shot_heatmap")
    /\ Len(RosterMatches(team)) = 0
    /\ exc = "ValueError"

\* Every Player object of the state
PlayerObjects ==
    (IF player.kind = "Player" THEN {player} ELSE {})
    \cup (IF team.kind = "Team" THEN { team.players[k] : k \in 1..Len(team.players) }
          ELSE {})
    \cup { f.self : f \in { g \in Frames : g.fn \in {"Player.shot_heatmap",
                                                      "Player.compare_with_league"} } }
    \cup { f.player : f \in { g \in Frames : g.fn = "generate_player_report"
                                              /\ g.player.kind = "Player" } }

OwnRecords(name) ==
    LET Own(r) == r.shooterName = name
    IN  SelectSeq(shot_data, Own)

\* C5: Player(name, data) raises ValueError exactly when no record of data has that
\* shooterName; a constructed Player holds exactly the records of that name, so its
\* total_shots is >= 1; generate_player_report for an unknown name ends with that
\* ValueError and writes no heatmap and no PDF.
C5_PlayerScope ==
    /\ IsCall("Player") =>
          /\ (exc = "ValueError" /\ done) <=> NameMissing(call.player_name, shot_data)
          /\ player.kind = "Player" <=> ~NameMissing(call.player_name, shot_data)
          /\ player.kind = "Player" => player.player_name = call.player_name
    /\ \A p \in PlayerObjects :
          /\ p.data = OwnRecords(p.player_name)
          /\ p.total_shots = Len(p.data)
          /\ p.total_shots >= 1
    /\ (IsCall("generate_player_report") /\ NameMissing(call.player_name, shot_data))
          => /\ DOMAIN fs = {}
             /\ trace = << >>
             /\ Len(stack) <= 1
             /\ done => exc = "ValueError"

\* C5 witness: a construction that raised for a name without records, in a table
\* that has records
C5_Witness ==
    /\ IsCall("Player") /\ NameMissing(call.player_name, shot_data)
    /\ Len(shot_data) > 0
    /\ exc = "ValueError" /\ player.kind = "None"

\* The two tables hold the same records, each as many times in one as in the other
SameRecords(a, b) ==
    /\ Len(a) = Len(b)
    /\ \A i \in 1..Len(a) :
          Cardinality({ k \in 1..Len(a) : a[k] = a[i] })
             = Cardinality({ k \in 1..Len(b) : b[k] = a[i] })

\* The frames that have computed a difference, with the records of its subject and
\* of its baseline and the two smoothed surfaces
AtDifference(f) ==
    \/ f.fn = "Player.compare_with_league" /\ f.pc = "L160"
    \/ f.fn = "Team.compare_with_league" /\ f.pc = "L332"
    \/ f.fn = "Main.py" /\ f.pc = "L74"

SubjectRecords(f) ==
    CASE f.fn = "Player.compare_with_league" -> f.self.data
      [] f.fn = "Team.compare_with_league" -> f.team_data.rows
      [] f.fn = "Main.py" -> f.player_shots.rows

BaselineRecords(f) ==
    CASE f.fn = "Player.compare_with_league" -> f.data.rows
      [] f.fn = "Team.compare_with_league" -> f.league_data.rows
      [] f.fn = "Main.py" -> f.data

SubjectSurface(f) ==
    CASE f.fn = "Player.compare_with_league" -> f.player_shots_smooth
      [] f.fn = "Team.compare_with_league" -> f.team_shots_smooth
      [] f.fn = "Main.py" -> f.player_shots_smooth

BaselineSurface(f) ==
    CASE f.fn = "Player.compare_with_league" -> f.league_xgoals_smooth
      [] f.fn = "Team.compare_with_league" -> f.league_xgoals_smooth
      [] f.fn = "Main.py" -> f.xgoals_smooth

\* C6: whenever the subject records and the baseline records are the same set of
\* records, every cell of the computed difference is 0.
C6_SelfDifferenceZero ==
    \A f \in Frames :
        (AtDifference(f) /\ SameRecords(SubjectRecords(f), BaselineRecords(f)))
           => AllZero(f.difference)

\* C6 case reached: Team.compare_with_league with the default baseline, the team's
\* records being the records of the table in another order, and a difference
\* with a non-zero cell
C6_Witness ==
    \E f \in Frames :
        /\ f.fn = "Team.compare_with_league" /\ f.pc = "L332"
        /\ call.league_data.kind = "None"
        /\ SameRecords(f.team_data.rows, f.league_data.rows)
        /\ ~AllZero(f.difference)

\* The operation the function of frame f logged last
LastOp(f) ==
    LET js == { j \in 1..Len(trace) : trace[j].fn = f.fn /\ trace[j].depth = Len(stack) }
    IN  IF js = {} THEN "none"
        ELSE trace[CHOOSE j \in js : \A i \in js : i <= j].op

\* C7: the difference is subject[i][j] - baseline[i][j] in every cell, nothing is
\* applied to it before it is plotted, and exchanging subject and baseline negates
\* every cell.
C7_PlainSubtraction ==
    \A f \in Frames :
        AtDifference(f) =>
            /\ \A rc \in Window :
                  /\ f.difference.win[rc]
                        = SubjectSurface(f).win[rc] - BaselineSurface(f).win[rc]
                  /\ npSubtract(BaselineSurface(f), SubjectSurface(f)).win[rc]
                        = 0 - f.difference.win[rc]
            /\ f.difference.shape = SubjectSurface(f).shape
            /\ f = Top => LastOp(f) = "subtract"

\* C7 witness: a difference with a negative cell, where the subject's surface is
\* positive and the baseline's is larger
C7_Witness ==
    \E f \in Frames :
        /\ AtDifference(f)
        /\ \E rc \in Window : /\ f.difference.win[rc] < 0
                               /\ SubjectSurface(f).win[rc] > 0

\* The frames that have generated their grid
WithGrid == { f \in Frames : Has(f, "xy") /\ f.xy.kind = "grid" }

\* C8 as stated: the first x is 0 and the last 100; the first y is -43 and the
\* last 43.
C8_AxisEndsAsStated ==
    \A f \in WithGrid :
        /\ f.xy.xs[1] = 0 /\ f.xy.xs[WidthSamples] = 100
        /\ f.xy.ys[1] = -43 /\ f.xy.ys[HeightSamples] = 43

\* C8: the first x is 0 and the last 100; the first y is -42 and the last 42 (the
\* ends -42.5 and 42.5 are ties, and np.round takes a tie to the even integer).
C8_AxisEnds ==
    \A f \in WithGrid :
        /\ Len(f.xy.xs) = WidthSamples /\ Len(f.xy.ys) = HeightSamples
        /\ f.xy.xs[1] = 0 /\ f.xy.xs[WidthSamples] = 100
        /\ f.xy.ys[1] = -42 /\ f.xy.ys[HeightSamples] = 42

\* C8 witness: the grid of generate_league_xgoals_smooth, generated
C8_Witness ==
    \E f \in WithGrid : f.fn = "generate_league_xgoals_smooth" /\ f.pc = "L49"

Uniform(axis) ==
    \A k \in 1..(Len(axis) - 1) : axis[k + 1] - axis[k] = axis[2] - axis[1]

\* C9: consecutive rounded x values all differ by the same step, and so do
\* consecutive rounded y values.
C9_UniformSpacing ==
    \A f \in WithGrid : Uniform(f.xy.xs) /\ Uniform(f.xy.ys)

\* C9 case reached: the grid of Player.shot_heatmap, whose x values step by 1
\* except from 49 to 51
C9_Witness ==
    \E f \in WithGrid :
        /\ f.fn = "Player.shot_heatmap"
        /\ f.xy.xs[50] = 49 /\ f.xy.xs[51] = 51
        /\ Uniform(f.xy.ys)

\* The arrays and surfaces a frame holds
ArrayFields ==
    {"league_xgoals", "league_xgoals_smooth", "xgoals_player", "player_shots_smooth",
     "xgoals_team", "team_shots_smooth", "xgoals", "xgoals_smooth"}

\* C10: every array and surface of an estimation path has shape (85, 100), and the
\* two operands of the subtraction in Player.compare_with_league and
\* Team.compare_with_league have the same shape.
C10_Shapes ==
    /\ \A f \in Frames : \A field \in ArrayFields \cap DOMAIN f :
          f[field].kind \in {"array", "surface"} => f[field].shape = FullShape
    /\ (done /\ IsCall("generate_league_xgoals_smooth") /\ exc = "None")
          => result.shape = FullShape
    /\ \A f \in Frames :
          (\/ f.fn = "Player.compare_with_league" /\ f.pc \in {"L157", "L160"}
           \/ f.fn = "Team.compare_with_league" /\ f.pc \in {"L329", "L332"})
             => /\ SubjectSurface(f).kind = "surface"
                /\ BaselineSurface(f).kind = "surface"
                /\ SubjectSurface(f).shape = BaselineSurface(f).shape
                /\ f.pc \in {"L160", "L332"} => f.difference.shape = FullShape

\* C10 witness: Team.compare_with_league about to subtract the league's surface
\* from the team's
C10_Witness ==
    /\ AtPc("Team.compare_with_league", "L329")
    /\ Top.team_shots_smooth.shape = FullShape
    /\ Top.league_xgoals_smooth.shape = FullShape

\* The frames of the team methods that have gathered the team's records
WithTeamData ==
    { f \in Frames : /\ f.fn \in {"Team.shot_heatmap", "Team.compare_with_league"}
                     /\ f.team_data.kind = "df" }

RosterNames(t) == { RosterMatches(t)[k].name : k \in 1..Len(RosterMatches(t)) }

\* The records of the shot table whose shooter is on the roster of team t
OnRoster(t) ==
    LET Mine(r) == r.shooterName \in RosterNames(t)
    IN  SelectSeq(t.shot_data, Mine)

\* C11: the records a team-level estimation interpolates are the records of
\* shot_data whose shooterName is on the team's roster, each exactly once and no
\* other record, also when the roster lists a name on several rows.
C11_TeamRecordsOnce ==
    \A f \in WithTeamData :
        /\ SameRecords(f.team_data.rows, OnRoster(f.self))
        /\ f.team_data.rows = ConcatAll(PlayerFrames(f.self))
        /\ \A i \in 1..Len(f.self.players), j \in 1..Len(f.self.players) :
              i # j => f.self.players[i].player_name # f.self.players[j].player_name

\* C11 witness: a team whose roster lists one name on two rows, with records of
\* that player, gathered
C11_Witness ==
    \E f \in WithTeamData :
        /\ Len(RosterMatches(f.self)) > Cardinality(RosterNames(f.self))
        /\ Len(f.team_data.rows) > 1

\* C12: every row import_clean_data returns has 0 <= x <= 89, -42.5 <= y <= 42.5
\* and 0 <= xGoal <= 1, and is a 5-on-5 shot, not on an empty net, with
\* shotDistance <= 89.
C12_CleanedWithinBounds ==
    (done /\ IsCall("import_clean_data")) =>
        \A k \in 1..Len(result.rows) :
            LET r == result.rows[k]
            IN  /\ 0 <= r.xCordAdjusted /\ r.xCordAdjusted <= 89
                /\ -85 <= 2 * r.yCordAdjusted /\ 2 * r.yCordAdjusted <= 85
                /\ 0 <= r.xGoal /\ r.xGoal <= 10
                /\ r.awaySkatersOnIce = 5 /\ r.homeSkatersOnIce = 5
                /\ r.shotOnEmptyNet = 0
                /\ r.shotDistance <= 89

\* C12 case reached: a returned table with a row that passed every rule and lies
\* outside the rink or has an xGoal above 1
C12_Witness ==
    /\ done /\ IsCall("import_clean_data")
    /\ \E k \in 1..Len(result.rows) :
          LET r == result.rows[k]
          IN  /\ r.awaySkatersOnIce = 5 /\ r.homeSkatersOnIce = 5
              /\ r.shotOnEmptyNet = 0 /\ r.shotDistance <= 89
              /\ r.xCordAdjusted <= 89
              /\ (r.xCordAdjusted < 0 \/ 2 * r.yCordAdjusted > 85 \/ r.xGoal > 10)

ArrayHasNaN(arr) == \E rc \in DOMAIN arr.cells : arr.cells[rc] = NaN
SurfaceHasNaN(surface) == \E rc \in DOMAIN surface.win : surface.win[rc] = NaN

\* The frames about to subtract
AtSubtract(f) ==
    \/ f.fn = "Player.compare_with_league" /\ f.pc = "L157"
    \/ f.fn = "Team.compare_with_league" /\ f.pc = "L329"
    \/ f.fn = "Main.py" /\ f.pc = "L72"

\* C13: an array or surface with a NaN cell is never smoothed, never subtracted,
\* never saved as an image and never returned: the estimation stops and reports
\* it instead.
C13_NonFiniteDetected ==
    /\ \A f \in Frames : AtSmooth(f) => ~ArrayHasNaN(ClampedOf(f))
    /\ \A f \in Frames :
          AtSubtract(f) => /\ ~SurfaceHasNaN(SubjectSurface(f))
                           /\ ~SurfaceHasNaN(BaselineSurface(f))
    /\ \A path \in DOMAIN fs :
          fs[path].kind = "png" => ~SurfaceHasNaN(fs[path].img)
    /\ (done /\ exc = "None" /\ IsCall("generate_league_xgoals_smooth"))
          => ~SurfaceHasNaN(result)

\* C13 case reached: Player.shot_heatmap has returned normally and the image it
\* saved is of a surface with NaN cells
C13_Witness ==
    /\ done /\ exc = "None" /\ IsCall("Player.shot_heatmap")
    /\ result \in DOMAIN fs
    /\ SurfaceHasNaN(fs[result].img)

\* C14: when two shot_heatmap calls for different players, or for a player and a
\* team, run side by side and interleave in any order, no call is ended by an
\* exception and each call that has returned has saved, under its own path, the
\* image of the surface of its own records.
C14_ParallelSafe ==
    \A w \in DOMAIN workers :
        /\ workers[w].pc # "raised"
        /\ workers[w].pc = "returned" =>
              /\ workers[w].output_path \in DOMAIN fs
              /\ fs[workers[w].output_path].img = workers[w].smooth

\* C14 case reached: both calls have returned, and the file of the first shows
\* the surface of the second
C14_Witness ==
    /\ Len(workers) = 2
    /\ workers[1].pc = "returned" /\ workers[2].pc = "returned"
    /\ workers[1].smooth # workers[2].smooth
    /\ fs[workers[1].output_path].img = workers[2].smooth

\* The frames of Team.compare_with_league holding the surface of the team's
\* records and the surface of the baseline records, both estimated on the grid
WithBothSurfaces ==
    { f \in Frames : /\ f.fn = "Team.compare_with_league"
                     /\ f.pc \in {"L329", "L332"} }

\* C15: two record sequences that are equal as multisets, also when records
\* share a position with different xGoal, give surfaces that are identical in
\* every cell (here: the team's records in roster order and the table's records
\* in table order).
C15_OrderIndependent ==
    \A f \in WithBothSurfaces :
        SameRecords(f.team_data.rows, f.league_data.rows)
           => \A rc \in Window :
                 f.team_shots_smooth.win[rc] = f.league_xgoals_smooth.win[rc]

\* C15 case reached: the same records in two orders, two of them on one position
\* with different xGoal, and two surfaces that differ
C15_Witness ==
    \E f \in WithBothSurfaces :
        /\ SameRecords(f.team_data.rows, f.league_data.rows)
        /\ f.team_data.rows # f.league_data.rows
        /\ HasDuplicatePosition(f.team_data.rows)
        /\ \E rc \in Window :
              f.team_shots_smooth.win[rc] # f.league_xgoals_smooth.win[rc]

\* The records of the players of team t within the distance threshold
TeamWithin(t, th) ==
    LET Near(r) == r.shotDistance <= th
    IN  SelectSeq(ConcatAll(PlayerFrames(t)), Near)

\* C16: Team.high_danger_shots(threshold) reports the number of records of the
\* team's players with shotDistance <= threshold, and that number divided by the
\* team's 'Total Shots' of get_basic_stats, times 100, or 0 without team shots.
C16_TeamHighDanger ==
    (done /\ IsCall("Team.high_danger_shots")) =>
        LET within == Len(TeamWithin(team, call.distance_threshold))
            total  == TeamBasicStats(team).TotalShots
        IN  /\ result.HighDangerShots = within
            /\ IF total > 0
               THEN result.HighDangerPct.n * total = within * 100 * result.HighDangerPct.d
               ELSE result.HighDangerPct.n = 0

\* C16 case reached: the reported number of high-danger shots is larger than the
\* number of the team's records within the threshold
C16_Witness ==
    /\ done /\ IsCall("Team.high_danger_shots")
    /\ Len(team.players) > 0
    /\ result.HighDangerShots > Len(TeamWithin(team, call.distance_threshold))

InHeatmaps == { q \in DOMAIN fs : q[1] = HeatmapsDir }

\* The frames of generate_team_report inside its try block
ReportInTry == { f \in Frames : f.fn = "generate_team_report" /\ f.finally # "None" }

\* main.py has called generate_team_report: its call of generate_player_report
\* has returned, and either the script has gone on or an exception has ended it
MainTeamReportOver ==
    /\ IsCall("main.py")
    /\ ReportPath(MainPlayerName) \in DOMAIN fs
    /\ \/ done
       \/ AtPc("main.py", "L10")

\* generate_team_report has finished, called by the session or by main.py
TeamReportOver == (done /\ IsCall("generate_team_report")) \/ MainTeamReportOver

\* While the try block runs, the directory and every image produced so far exist
\* and each embedded image is the content of its file; the call returns only
\* with the directory gone and the PDF written
ReportBuiltFromFiles ==
    /\ (done /\ IsCall("generate_team_report") /\ exc = "None") =>
          /\ result = TeamReportPath(call.team_name)
          /\ result \in DOMAIN fs
          /\ fs[result].kind = "pdf"
          /\ Len(fs[result].images) >= 2
          /\ \A k \in 1..Len(fs[result].images) : fs[result].images[k].kind = "png"
    /\ \A f \in ReportInTry :
          /\ << HeatmapsDir >> \in DOMAIN fs
          /\ TeamReportPath(f.team_name) \notin DOMAIN fs
          /\ \A k \in 1..Len(f.pdf.images) : f.pdf.images[k] \in { fs[q] : q \in InHeatmaps }
          /\ Len(f.pdf.images) >= 1 => f.pdf.images[1] = fs[f.team_heatmap_path]
          /\ Len(f.pdf.images) >= 2 => f.pdf.images[2] = fs[f.team_vs_league_path]
    /\ \A f \in Frames :
          (f.fn = "generate_team_report" /\ f.pc = "L537")
             => /\ InHeatmaps = {}
                /\ f.output_filename \in DOMAIN fs

\* C17 as stated: when generate_team_report has finished, by returning the
\* report's file name or by an exception of its try block, the heatmaps directory
\* and every file in it are gone; they are removed only after the PDF has been
\* written, and every image of the PDF was read from its file when it was
\* embedded.
C17_TeamReportCleanupAsStated ==
    /\ TeamReportOver => InHeatmaps = {}
    /\ ReportBuiltFromFiles

\* C17: when generate_team_report has finished, either the heatmaps directory and
\* every file in it are gone (the files an earlier generate_player_report of the
\* same process left there included), or a file could not be removed: then the
\* directory and the files not removed are left and the call has ended with
\* OSError instead of returning. The directory is emptied only after the PDF has
\* been written, and every image of the PDF was read from its file when it was
\* embedded.
C17_TeamReportCleanup ==
    /\ TeamReportOver =>
          \/ InHeatmaps = {}
          \/ /\ done /\ exc = "OSError"
             /\ << HeatmapsDir >> \in DOMAIN fs
             /\ HeatmapFiles(fs) # {}
    /\ (TeamReportOver /\ exc # "OSError") => InHeatmaps = {}
    /\ ReportBuiltFromFiles

\* C17 witness: the PDF with the two team images and the two images of a player
\* has been written, a file of the directory could not be removed, and
\* generate_team_report has ended with OSError, leaving that file and the
\* directory
C17_Witness ==
    /\ done /\ IsCall("generate_team_report") /\ exc = "OSError"
    /\ TeamReportPath(call.team_name) \in DOMAIN fs
    /\ Len(fs[TeamReportPath(call.team_name)].images) >= 4
    /\ Cardinality(HeatmapFiles(fs)) = 1
    /\ << HeatmapsDir >> \in DOMAIN fs

====
